---- MODULE Spec2Model ----
(***************************************************************************)
(* Model of the rosella pipeline: the tokenizer (rosella_lib/src/lexer.rs) *)
(* and the parser (rosella_lib/src/parser.rs).                             *)
(*                                                                         *)
(* A character is a one-character string; a character outside ASCII is     *)
(* written by its code point ("U+00E9"), as is the backtick ("U+0060").    *)
(* Text is a sequence of characters.  A token is a record [type, value];   *)
(* value is the text a literal token carries and <<>> for every other      *)
(* token.  An f64 is kept as its shortest decimal text (what Rust's        *)
(* Display prints), so that two literals denote the same number iff their  *)
(* canonical texts are equal.                                              *)
(***************************************************************************)
EXTENDS Integers, Sequences, FiniteSets, TLC

\* ------------------------------------------------------------------------
\* Bounds of the model
\* ------------------------------------------------------------------------
MaxLen == 3
MaxOpLen == 4
MaxCommentLen == 5
MaxNumLen == 4
MaxSpin == 1
MaxOperators == 2
MaxCallLen == 6
MaxCallOperandLen == 5

MaxParens == 2

MaxArgs == 2

MaxProgramLen == 2

\* ------------------------------------------------------------------------
\* Characters
\* ------------------------------------------------------------------------
None == "None"

AsciiDigits == {"0", "1", "2", "3", "4", "5", "6", "7", "8", "9"}

AsciiLetters ==
    {"a", "b", "c", "d", "e", "f", "g", "h", "i", "j", "k", "l", "m",
     "n", "o", "p", "q", "r", "s", "t", "u", "v", "w", "x", "y", "z",
     "A", "B", "C", "D", "E", "F", "G", "H", "I", "J", "K", "L", "M",
     "N", "O", "P", "Q", "R", "S", "T", "U", "V", "W", "X", "Y", "Z"}

\* U+00E9 (e acute) and U+03BB (lambda) are alphabetic and not ASCII.
UnicodeLetters == {"U+00E9", "U+03BB"}

AsciiPunctuationChars ==
    {"!", "\"", "#", "$", "%", "&", "'", "(", ")", "*", "+", ",", "-", ".",
     "/", ":", ";", "<", "=", ">", "?", "@", "[", "\\", "]", "^", "_", "U+0060",
     "{", "|", "}", "~"}

IsAsciiDigit(ch) == ch \in AsciiDigits

IsAsciiWhitespace(ch) == ch \in {" ", "\t", "\n", "\f", "\r"}

IsAlphabetic(ch) == ch \in AsciiLetters \cup UnicodeLetters

IsAsciiAlphanumeric(ch) == ch \in AsciiLetters \cup AsciiDigits

IsAsciiPunctuation(ch) == ch \in AsciiPunctuationChars

\* input.get(position).copied()
CharAt(inp, pos) == IF pos < Len(inp) THEN inp[pos + 1] ELSE None

\* ------------------------------------------------------------------------
\* Tokens
\* ------------------------------------------------------------------------
Tok(t) == [type |-> t, value |-> <<>>]

TokV(t, v) == [type |-> t, value |-> v]

EOF == Tok("EOF")

\* ------------------------------------------------------------------------
\* f64 parsing of a run of digits and '.'
\* ------------------------------------------------------------------------
RECURSIVE CountDots(_)
CountDots(s) ==
    IF s = <<>> THEN 0
    ELSE (IF s[1] = "." THEN 1 ELSE 0) + CountDots(Tail(s))

RECURSIVE StripLeadingZeros(_)
StripLeadingZeros(s) ==
    IF Len(s) > 1 /\ s[1] = "0" THEN StripLeadingZeros(Tail(s)) ELSE s

RECURSIVE StripTrailingZeros(_)
StripTrailingZeros(s) ==
    IF s # <<>> /\ s[Len(s)] = "0"
    THEN StripTrailingZeros(SubSeq(s, 1, Len(s) - 1))
    ELSE s

DotIndex(s) == CHOOSE i \in 1..Len(s) : s[i] = "."

\* str::parse::<f64> on text made of ASCII digits and '.': Ok for digits
\* with at most one '.', except a lone "."; the value in canonical text.
ParseF64(s) ==
    IF CountDots(s) > 1 \/ s = <<".">> \/ s = <<>>
    THEN [ok |-> FALSE, value |-> <<>>]
    ELSE IF CountDots(s) = 0
    THEN [ok |-> TRUE, value |-> StripLeadingZeros(s)]
    ELSE LET d == DotIndex(s)
             ip == SubSeq(s, 1, d - 1)
             fp == StripTrailingZeros(SubSeq(s, d + 1, Len(s)))
             int == IF ip = <<>> THEN <<"0">> ELSE StripLeadingZeros(ip)
         IN  [ok |-> TRUE,
              value |-> IF fp = <<>> THEN int ELSE int \o <<".">> \o fp]

\* ------------------------------------------------------------------------
\* Lexer helpers: each returns the value read and the position reached
\* ------------------------------------------------------------------------
RECURSIVE NumberEnd(_, _)
NumberEnd(inp, pos) ==
    IF pos < Len(inp) /\ (IsAsciiDigit(inp[pos + 1]) \/ inp[pos + 1] = ".")
    THEN NumberEnd(inp, pos + 1)
    ELSE pos

RECURSIVE DigitsEnd(_, _)
DigitsEnd(inp, pos) ==
    IF pos < Len(inp) /\ IsAsciiDigit(inp[pos + 1]) THEN DigitsEnd(inp, pos + 1) ELSE pos

\* Mutant of read_number: the run stops at a decimal point.
read_number_digits_only(inp, pos) ==
    LET end == DigitsEnd(inp, pos)
        res == ParseF64(SubSeq(inp, pos + 1, end))
    IN  [value |-> IF res.ok THEN res.value ELSE <<"0">>, pos |-> end]

read_number(inp, pos) ==
    LET end == NumberEnd(inp, pos)
        res == ParseF64(SubSeq(inp, pos + 1, end))
    IN  [value |-> IF res.ok THEN res.value ELSE <<"0">>, pos |-> end]

RECURSIVE StringEnd(_, _)
StringEnd(inp, pos) ==
    IF pos < Len(inp) /\ inp[pos + 1] # "\"" THEN StringEnd(inp, pos + 1) ELSE pos

read_string(inp, pos) ==
    LET end == StringEnd(inp, pos + 1)
    IN  [value |-> SubSeq(inp, pos + 2, end),
         pos |-> IF end < Len(inp) THEN end + 1 ELSE end]

RECURSIVE IdentEnd(_, _)
IdentEnd(inp, pos) ==
    IF pos < Len(inp) /\ (IsAsciiAlphanumeric(inp[pos + 1]) \/ inp[pos + 1] = "_")
    THEN IdentEnd(inp, pos + 1)
    ELSE pos

read_identifer(inp, pos) ==
    LET end == IdentEnd(inp, pos)
    IN  [value |-> SubSeq(inp, pos + 1, end), pos |-> end]

determine_keyword(text) ==
    CASE text = <<"f", "n">> -> Tok("Function")
      [] text = <<"l", "e", "t">> -> Tok("Let")
      [] text = <<"i", "f">> -> Tok("If")
      [] text = <<"e", "l", "s", "e">> -> Tok("Else")
      [] text = <<"w", "i", "t", "h">> -> Tok("With")
      [] text = <<"w", "h", "i", "l", "e">> -> Tok("While")
      [] OTHER -> TokV("Identifier", text)

\* consume_comment, entered with the cursor on the '*' of the opener.
RECURSIVE CommentScan(_, _)
CommentScan(inp, pos) ==
    IF pos >= Len(inp) THEN [ok |-> FALSE, pos |-> pos]
    ELSE IF inp[pos + 1] = "*"
    THEN IF CharAt(inp, pos + 1) = "/"
         THEN [ok |-> TRUE, pos |-> pos + 2]
         ELSE CommentScan(inp, pos + 1)
    ELSE CommentScan(inp, pos + 1)

\* Mutant of consume_comment: the end of the input closes the comment.
consume_comment_open_ended(inp, pos) ==
    [ok |-> TRUE, pos |-> CommentScan(inp, pos + 1).pos]

consume_comment(inp, pos) == CommentScan(inp, pos + 1)

NoError == <<>>

CommentError == <<"ParseError", "Expected */ to end comment">>

\* The outcome of one match arm: a token to push, nothing (continue), or an
\* error to return; pos is the cursor the arm leaves.
Emit(tok, pos) == [kind |-> "token", emit |-> <<tok>>, pos |-> pos, error |-> NoError]

Skip(pos) == [kind |-> "continue", emit |-> <<>>, pos |-> pos, error |-> NoError]

Fail(err, pos) == [kind |-> "error", emit |-> <<>>, pos |-> pos, error |-> err]

\* Some('<') arm; p1 is the cursor after determine_punctuation's advance().
LessThanArm(inp, p1) ==
    IF CharAt(inp, p1) = "=" THEN Emit(Tok("LessThanEq"), p1 + 1)
    ELSE Emit(Tok("LessThan"), p1)

\* Some('>') arm: it calls advance() once more before it tests for '='.
GreaterThanArm(inp, p1) ==
    LET p2 == p1 + 1
    IN  IF CharAt(inp, p2) = "=" THEN Emit(Tok("GreaterThanEq"), p2 + 1)
        ELSE Emit(Tok("GreaterThan"), p2)

\* Some('/') arm.
SlashArm(inp, p1) ==
    IF CharAt(inp, p1) = "*"
    THEN LET c == consume_comment(inp, p1)
         IN  IF c.ok THEN Emit(Tok("Comment"), c.pos)
             ELSE Fail(CommentError, c.pos)
    ELSE Emit(Tok("Divide"), p1)

\* Mutant of UnhandledPunctuation: the character is skipped.
UnhandledPunctuationSkipped(ch, p1) == Skip(p1)

\* Some(_) arm of determine_punctuation.
UnhandledPunctuation(ch, p1) == Fail(<<"InvalidPunctuation", ch>>, p1)

\* determine_punctuation(current_char), entered with the cursor on the
\* punctuation character ch at pos.
determine_punctuation(inp, pos, ch) ==
    LET p1 == pos + 1
        cur == CharAt(inp, p1)
    IN  CASE ch = "=" -> IF cur = "=" THEN Emit(Tok("Equal"), p1 + 1)
                         ELSE Emit(Tok("Assign"), p1)
          [] ch = "+" -> Emit(Tok("Plus"), p1)
          [] ch = "-" -> Emit(Tok("Minus"), p1)
          [] ch = "*" -> Emit(Tok("Multiply"), p1)
          [] ch = "/" -> SlashArm(inp, p1)
          [] ch = "<" -> LessThanArm(inp, p1)
          [] ch = ">" -> GreaterThanArm(inp, p1)
          [] ch = "(" -> Emit(Tok("LParen"), p1)
          [] ch = ")" -> Emit(Tok("RParen"), p1)
          [] ch = "{" -> Emit(Tok("LBrace"), p1)
          [] ch = "}" -> Emit(Tok("RBrace"), p1)
          [] ch = "[" -> Emit(Tok("LBraceSquare"), p1)
          [] ch = "]" -> Emit(Tok("RBraceSquare"), p1)
          [] ch = "," -> Emit(Tok("Comma"), p1)
          [] ch = ";" -> Emit(Tok("Semicolon"), p1)
          [] ch = None -> Emit(EOF, p1)
          [] OTHER -> UnhandledPunctuation(ch, p1)

\* The arm of tokenise's match that the current character selects.
Arm(inp, pos) ==
    LET ch == CharAt(inp, pos)
    IN  CASE ch = None -> "eof"
          [] ch \in {"\n", "\t", "\r"} -> "whitespace"
          [] IsAsciiWhitespace(ch) -> "whitespace"
          [] IsAsciiDigit(ch) -> "number"
          [] IsAlphabetic(ch) \/ ch = "_" -> "identifier"
          [] ch = "\"" -> "string"
          [] ch = "!" -> "bang"
          [] ch = "|" -> "pipe"
          [] IsAsciiPunctuation(ch) -> "punctuation"
          [] OTHER -> "invalid"

\* The match of one iteration of tokenise's loop.
LexStep(inp, pos) ==
    LET ch == CharAt(inp, pos)
        arm == Arm(inp, pos)
    IN  CASE arm = "whitespace" -> Skip(pos + 1)
          [] arm = "number" ->
                LET r == read_number(inp, pos) IN Emit(TokV("Number", r.value), r.pos)
          [] arm = "identifier" ->
                LET r == read_identifer(inp, pos) IN Emit(determine_keyword(r.value), r.pos)
          [] arm = "string" ->
                LET r == read_string(inp, pos) IN Emit(TokV("String", r.value), r.pos)
          [] arm = "bang" ->
                IF CharAt(inp, pos + 1) = "=" THEN Emit(Tok("NotEqual"), pos + 2)
                ELSE Skip(pos + 1)
          [] arm = "pipe" ->
                IF CharAt(inp, pos + 1) = ">" THEN Emit(Tok("RawInstruction"), pos + 2)
                ELSE Skip(pos + 1)
          [] arm = "punctuation" -> determine_punctuation(inp, pos, ch)
          [] arm = "invalid" -> Fail(<<"InvalidToken", ch>>, pos)
          [] arm = "eof" -> Emit(EOF, pos)

\* Mutant of PushToken: EOF ends the loop without being pushed.
PushTokenBreakFirst(toks, tok) ==
    IF tok = EOF THEN [tokens |-> toks, status |-> "ok"]
    ELSE [tokens |-> Append(toks, tok), status |-> "running"]

\* The end of the loop body: the token is pushed, and EOF ends the loop.
PushToken(toks, tok) ==
    [tokens |-> Append(toks, tok),
     status |-> IF tok = EOF THEN "ok" ELSE "running"]

\* One whole iteration: the lexer's status, token vector, cursor and error
\* after it.  An Err return drops the token vector.
Iterate(inp, pos, toks) ==
    LET s == LexStep(inp, pos)
    IN  CASE s.kind = "token" ->
                LET p == PushToken(toks, s.emit[1])
                IN  [status |-> p.status, tokens |-> p.tokens, pos |-> s.pos,
                     error |-> NoError]
          [] s.kind = "continue" ->
                [status |-> "running", tokens |-> toks, pos |-> s.pos, error |-> NoError]
          [] OTHER ->
                [status |-> "err", tokens |-> <<>>, pos |-> s.pos, error |-> s.error]

\* tokenise as a function of the input: the loop run for at most fuel
\* iterations ("diverges" when the fuel runs out before it returns).
RECURSIVE TokeniseFrom(_, _, _, _)
TokeniseFrom(inp, pos, toks, fuel) ==
    IF fuel = 0 THEN [status |-> "diverges", tokens |-> <<>>, error |-> NoError]
    ELSE LET s == Iterate(inp, pos, toks)
         IN  IF s.status = "running"
             THEN TokeniseFrom(inp, s.pos, s.tokens, fuel - 1)
             ELSE [status |-> s.status, tokens |-> s.tokens, error |-> s.error]

tokenise(inp) == TokeniseFrom(inp, 0, <<>>, Len(inp) + 2)

\* ------------------------------------------------------------------------
\* Parser: expressions and statements as records, results as records
\* [ok, val, pos, err] (val the tree on Ok, err the error on Err, pos the
\* cursor the call leaves)
\* ------------------------------------------------------------------------
ExprNumber(v) == [kind |-> "Number", value |-> v]

ExprString(v) == [kind |-> "String", value |-> v]

ExprIdentifier(n) == [kind |-> "Identifier", name |-> n]

ExprBinary(l, op, r) == [kind |-> "Binary", left |-> l, operator |-> op, right |-> r]

ExprCall(n, a) == [kind |-> "Call", name |-> n, args |-> a]

StmtExpression(e) == [kind |-> "Expression", expr |-> e]

StmtLet(t, n, v) == [kind |-> "Let", variable_type |-> t, name |-> n, value |-> v]

\* An Option is <<>> for None and <<x>> for Some(x).
StmtIf(t, c, th, el) ==
    [kind |-> "If", condition_type |-> t, condition |-> c, then_branch |-> th,
     else_branch |-> el]

StmtWith(os, body) == [kind |-> "With", os |-> os, body |-> body]

StmtWhile(t, c, body) ==
    [kind |-> "While", condition_type |-> t, condition |-> c, body |-> body]

StmtFunction(n, args, body) ==
    [kind |-> "Function", name |-> n, arguments |-> args, body |-> body]

StmtRawInstruction(es) == [kind |-> "RawInstruction", instructions |-> es]

POk(v, pos) == [ok |-> TRUE, val |-> v, pos |-> pos, err |-> NoError]

PErr(e, pos) == [ok |-> FALSE, val |-> <<>>, pos |-> pos, err |-> e]

current_token(toks, pos) == IF pos < Len(toks) THEN toks[pos + 1] ELSE EOF

peek_previous(toks, pos) ==
    IF pos > 0 THEN (IF pos - 1 < Len(toks) THEN toks[pos] ELSE EOF) ELSE EOF

\* Parser::advance, as the cursor it leaves
advance(toks, pos) == IF pos < Len(toks) THEN pos + 1 ELSE pos

expect_token(toks, pos, expected) ==
    IF current_token(toks, pos) = expected
    THEN POk(<<>>, advance(toks, pos))
    ELSE PErr(<<"UnexpectedToken", expected, current_token(toks, pos)>>, pos)

\* v bound to a name for the rest of the function: F(v), with v computed once
Bind(v, F(_)) == CHOOSE y \in {F(x) : x \in {v}} : TRUE

\* The ? operator: an Err result is returned at once, an Ok result goes on
\* to the rest of the function.
Try(res, F(_)) == CHOOSE y \in {IF r.ok THEN F(r) ELSE r : r \in {res}} : TRUE

\* Mutant of Precedence: the additive and multiplicative levels exchanged.
PrecedenceAdditiveLast ==
    << {"Equal", "NotEqual"},
       {"GreaterThan", "GreaterThanEq", "LessThan", "LessThanEq"},
       {"Multiply", "Divide"},
       {"Plus", "Minus"} >>

\* The precedence table of parse_expression, lowest-binding level first.
Precedence ==
    << {"Equal", "NotEqual"},
       {"GreaterThan", "GreaterThanEq", "LessThan", "LessThanEq"},
       {"Plus", "Minus"},
       {"Multiply", "Divide"} >>

token_to_binary_op(tok) ==
    CASE tok.type = "Equal" -> POk("Equal", 0)
      [] tok.type = "NotEqual" -> POk("NotEqual", 0)
      [] tok.type = "GreaterThan" -> POk("GreaterThan", 0)
      [] tok.type = "GreaterThanEq" -> POk("GreaterThanEq", 0)
      [] tok.type = "LessThan" -> POk("LessThan", 0)
      [] tok.type = "LessThanEq" -> POk("LessThanEq", 0)
      [] tok.type = "Plus" -> POk("Add", 0)
      [] tok.type = "Minus" -> POk("Subtract", 0)
      [] tok.type = "Multiply" -> POk("Multiply", 0)
      [] tok.type = "Divide" -> POk("Divide", 0)
      [] OTHER -> PErr(<<"ParseError", "is not a valid binary operator", tok>>, 0)

RECURSIVE parse_stmt(_, _)
RECURSIVE parse_block(_, _, _)
RECURSIVE parse_if_stmt(_, _)
RECURSIVE parse_expression(_, _)
RECURSIVE binary_expression(_, _, _)
RECURSIVE binary_loop(_, _, _, _)
RECURSIVE primary(_, _)
RECURSIVE parse_arguments(_, _)
RECURSIVE arguments_loop(_, _, _)
RECURSIVE raw_loop(_, _, _)

\* Mutant of call_tail: no ';' is required after the ')'.
call_tail_no_semicolon(toks, pos, name) ==
    Try(parse_arguments(toks, advance(toks, pos)), LAMBDA args :
    POk(ExprCall(name, args.val), args.pos))

\* The tail of primary once it has committed to a call: the cursor is on
\* the '(' that follows the identifier `name`.
call_tail(toks, pos, name) ==
    Try(parse_arguments(toks, advance(toks, pos)), LAMBDA args :
    Try(expect_token(toks, args.pos, Tok("Semicolon")), LAMBDA semi :
    POk(ExprCall(name, args.val), semi.pos)))

\* The match at the head of primary.  `returned` marks an Err that leaves
\* primary at once (the ? operators of the parenthesised arm).
primary_match(toks, pos) ==
    Bind(current_token(toks, pos), LAMBDA cur :
    CASE cur.type = "Number" ->
            [returned |-> FALSE, res |-> POk(ExprNumber(cur.value), advance(toks, pos))]
      [] cur.type = "String" ->
            [returned |-> FALSE, res |-> POk(ExprString(cur.value), advance(toks, pos))]
      [] cur.type = "Identifier" ->
            [returned |-> FALSE,
             res |-> POk(ExprIdentifier(cur.value), advance(toks, pos))]
      [] cur.type = "LParen" ->
            Bind(Try(parse_expression(toks, advance(toks, pos)), LAMBDA e :
                 Try(expect_token(toks, e.pos, Tok("RParen")), LAMBDA close :
                 POk(e.val, close.pos))),
                 LAMBDA r : [returned |-> ~r.ok, res |-> r])
      [] OTHER ->
            [returned |-> FALSE,
             res |-> PErr(<<"ParseError", "Unexpected token", cur>>, pos)])

primary(toks, pos) ==
    Bind(primary_match(toks, pos), LAMBDA m :
    IF m.returned THEN m.res
    ELSE Bind(peek_previous(toks, m.res.pos), LAMBDA prev :
         IF prev.type = "Identifier" /\ current_token(toks, m.res.pos).type = "LParen"
         THEN call_tail(toks, m.res.pos, prev.value)
         ELSE m.res))

arguments_loop(toks, pos, arguments) ==
    Try(parse_expression(toks, pos), LAMBDA e :
    Bind(current_token(toks, e.pos), LAMBDA cur :
    CASE cur.type = "Comma" ->
            arguments_loop(toks, advance(toks, e.pos), Append(arguments, e.val))
      [] cur.type = "RParen" -> POk(Append(arguments, e.val), advance(toks, e.pos))
      [] OTHER -> PErr(<<"ParseError", "Expected ',' or ')' after argument">>, e.pos)))

parse_arguments(toks, pos) ==
    IF current_token(toks, pos) = Tok("RParen")
    THEN POk(<<>>, advance(toks, pos))
    ELSE arguments_loop(toks, pos, <<>>)

\* Mutant of binary_loop: the right operand is parsed at the same level, so
\* that a chain of one level groups to the right.
binary_loop_right_assoc(toks, pos, level, expr) ==
    IF current_token(toks, pos).type \in Precedence[level + 1]
    THEN Bind(advance(toks, pos), LAMBDA p1 :
         Bind(token_to_binary_op(peek_previous(toks, p1)), LAMBDA operator :
         IF ~operator.ok THEN PErr(operator.err, p1)
         ELSE Try(binary_expression(toks, p1, level), LAMBDA right :
              POk(ExprBinary(expr, operator.val, right.val), right.pos))))
    ELSE POk(expr, pos)

\* The loop of binary_expression at one level, expr the tree built so far.
binary_loop(toks, pos, level, expr) ==
    IF current_token(toks, pos).type \in Precedence[level + 1]
    THEN Bind(advance(toks, pos), LAMBDA p1 :
         Bind(token_to_binary_op(peek_previous(toks, p1)), LAMBDA operator :
         IF ~operator.ok THEN PErr(operator.err, p1)
         ELSE Try(binary_expression(toks, p1, level + 1), LAMBDA right :
              binary_loop(toks, right.pos, level,
                          ExprBinary(expr, operator.val, right.val)))))
    ELSE POk(expr, pos)

binary_expression(toks, pos, level) ==
    IF level >= Len(Precedence) THEN primary(toks, pos)
    ELSE Try(binary_expression(toks, pos, level + 1), LAMBDA left :
         binary_loop(toks, left.pos, level, left.val))

parse_expression(toks, pos) == binary_expression(toks, pos, 0)

\* while current_token() != RBrace { body.push(parse_stmt()?) }
parse_block(toks, pos, body) ==
    IF current_token(toks, pos) # Tok("RBrace")
    THEN Try(parse_stmt(toks, pos), LAMBDA st :
         parse_block(toks, st.pos, Append(body, st.val)))
    ELSE POk(body, pos)

\* '{' statement* '}'
braced_block(toks, pos) ==
    Try(expect_token(toks, pos, Tok("LBrace")), LAMBDA open :
    Try(parse_block(toks, open.pos, <<>>), LAMBDA body :
    Try(expect_token(toks, body.pos, Tok("RBrace")), LAMBDA close :
    POk(body.val, close.pos))))

\* match current_token() { Identifier(x) => x, _ => return Err(ParseError(msg)) };
\* advance()
expect_identifier(toks, pos, msg) ==
    IF current_token(toks, pos).type = "Identifier"
    THEN POk(current_token(toks, pos).value, advance(toks, pos))
    ELSE PErr(<<"ParseError", msg>>, pos)

\* '(' expression ')'
parenthesised_condition(toks, pos) ==
    Try(expect_token(toks, pos, Tok("LParen")), LAMBDA open :
    Try(parse_expression(toks, open.pos), LAMBDA cond :
    Try(expect_token(toks, cond.pos, Tok("RParen")), LAMBDA close :
    POk(cond.val, close.pos))))

\* Mutant of parse_fn_stmt: the argument list is always wrapped in Some.
parse_fn_stmt_always_some(toks, pos) ==
    Try(expect_token(toks, pos, Tok("Function")), LAMBDA kw :
    Try(expect_identifier(toks, kw.pos, "Expected identifer after 'fn'"), LAMBDA name :
    Try(expect_token(toks, name.pos, Tok("LParen")), LAMBDA open :
    Try(parse_arguments(toks, open.pos), LAMBDA arguments :
    Try(braced_block(toks, arguments.pos), LAMBDA body :
    POk(StmtFunction(name.val, <<arguments.val>>, body.val), body.pos))))))

parse_fn_stmt(toks, pos) ==
    Try(expect_token(toks, pos, Tok("Function")), LAMBDA kw :
    Try(expect_identifier(toks, kw.pos, "Expected identifer after 'fn'"), LAMBDA name :
    Try(expect_token(toks, name.pos, Tok("LParen")), LAMBDA open :
    Try(parse_arguments(toks, open.pos), LAMBDA arguments :
    Try(braced_block(toks, arguments.pos), LAMBDA body :
    POk(StmtFunction(name.val,
                     IF arguments.val = <<>> THEN <<>> ELSE <<arguments.val>>,
                     body.val),
        body.pos))))))

parse_let_stmt(toks, pos) ==
    Try(expect_token(toks, pos, Tok("Let")), LAMBDA kw :
    Try(expect_identifier(toks, kw.pos,
                          "Expected identifer (for variable type) after 'let'"),
        LAMBDA ty :
    Try(expect_identifier(toks, ty.pos, "Expected identifer after 'let'"), LAMBDA name :
    Try(expect_token(toks, name.pos, Tok("Assign")), LAMBDA assign :
    Try(parse_expression(toks, assign.pos), LAMBDA value :
    Try(expect_token(toks, value.pos, Tok("Semicolon")), LAMBDA semi :
    POk(StmtLet(ty.val, name.val, value.val), semi.pos)))))))

\* The else part of parse_if_stmt, the cursor after the then-block's '}'.
else_branch(toks, pos) ==
    IF current_token(toks, pos) = Tok("Else")
    THEN Bind(advance(toks, pos), LAMBDA p1 :
         IF current_token(toks, p1) = Tok("If")
         THEN Try(parse_if_stmt(toks, p1), LAMBDA nested :
              POk(<< <<nested.val>> >>, nested.pos))
         ELSE Try(braced_block(toks, p1), LAMBDA block :
              POk(<<block.val>>, block.pos)))
    ELSE POk(<<>>, pos)

parse_if_stmt(toks, pos) ==
    Try(expect_token(toks, pos, Tok("If")), LAMBDA kw :
    Try(expect_identifier(toks, kw.pos,
                          "Expected identifer (for comparison type) after 'if'"),
        LAMBDA ty :
    Try(parenthesised_condition(toks, ty.pos), LAMBDA cond :
    Try(braced_block(toks, cond.pos), LAMBDA then_branch :
    Try(else_branch(toks, then_branch.pos), LAMBDA els :
    POk(StmtIf(ty.val, cond.val, then_branch.val, els.val), els.pos))))))

parse_with_stmt(toks, pos) ==
    Try(expect_token(toks, pos, Tok("With")), LAMBDA kw :
    Try(expect_identifier(toks, kw.pos, "Expected identifier after 'with'"), LAMBDA os :
    Try(braced_block(toks, os.pos), LAMBDA body :
    POk(StmtWith(os.val, body.val), body.pos))))

parse_while_stmt(toks, pos) ==
    Try(expect_token(toks, pos, Tok("While")), LAMBDA kw :
    Try(expect_identifier(toks, kw.pos,
                          "Expected identifer (for comparison type) after 'with'"),
        LAMBDA ty :
    Try(parenthesised_condition(toks, ty.pos), LAMBDA cond :
    Try(braced_block(toks, cond.pos), LAMBDA body :
    POk(StmtWhile(ty.val, cond.val, body.val), body.pos)))))

\* while current_token() != Semicolon && current_token() != EOF { ... }
raw_loop(toks, pos, instructions) ==
    IF current_token(toks, pos) # Tok("Semicolon") /\ current_token(toks, pos) # EOF
    THEN Try(parse_expression(toks, pos), LAMBDA e :
         raw_loop(toks, e.pos, Append(instructions, e.val)))
    ELSE POk(instructions, pos)

parse_raw_stmt(toks, pos) ==
    Try(expect_token(toks, pos, Tok("RawInstruction")), LAMBDA kw :
    Try(raw_loop(toks, kw.pos, <<>>), LAMBDA instructions :
    Try(expect_token(toks, instructions.pos, Tok("Semicolon")), LAMBDA semi :
    POk(StmtRawInstruction(instructions.val), semi.pos))))

parse_stmt(toks, pos) ==
    Bind(current_token(toks, pos), LAMBDA cur :
    CASE cur.type = "Function" -> parse_fn_stmt(toks, pos)
      [] cur.type = "Let" -> parse_let_stmt(toks, pos)
      [] cur.type = "If" -> parse_if_stmt(toks, pos)
      [] cur.type = "With" -> parse_with_stmt(toks, pos)
      [] cur.type = "While" -> parse_while_stmt(toks, pos)
      [] cur.type = "RawInstruction" -> parse_raw_stmt(toks, pos)
      [] OTHER ->
            Try(parse_expression(toks, pos), LAMBDA expr :
            POk(StmtExpression(expr.val), expr.pos)))

\* ------------------------------------------------------------------------
\* Compiler
\* ------------------------------------------------------------------------
\* A String or an f64 of the tree printed with {}: the pieces of the value
\* joined into one text.
RECURSIVE to_string(_)
to_string(v) == IF v = <<>> THEN "" ELSE Head(v) \o to_string(Tail(v))

\* enum Shell
Shell == {"Batch", "Bash"}

\* enum OS, as the matches over self.os enumerate it
OS == {"Windows", "Linux"}

\* Ok(text), Err(CompilerError(..)) and a panic (todo!, expect) of a
\* compiler function.
COk(text) == [ok |-> TRUE, val |-> text, err |-> NoError, panic |-> FALSE]

CErr(e) == [ok |-> FALSE, val |-> "", err |-> e, panic |-> FALSE]

CPanic(msg) == [ok |-> FALSE, val |-> "", err |-> <<"panic", msg>>, panic |-> TRUE]

CompilerError(msg) == CErr(<<"CompilerError", msg>>)

current_statement(self) ==
    IF self.position < Len(self.statements)
    THEN COk(self.statements[self.position + 1])
    ELSE CPanic("No current statement found")

get_condition_type(statement) ==
    CASE statement.kind = "Let" -> COk(to_string(statement.variable_type))
      [] statement.kind = "If" -> COk(to_string(statement.condition_type))
      [] statement.kind = "While" -> COk(to_string(statement.condition_type))
      [] OTHER -> CompilerError("No condition type found for operator formatting")

\* Mutant of format_operator: the Bash "int" comparisons are rendered with
\* the symbols of the "str" tag.
format_operator_symbols(self, operator, statement) ==
    Try(get_condition_type(statement), LAMBDA condition_type :
    CASE operator = "Add" -> COk("+")
      [] operator = "Subtract" -> COk("-")
      [] operator = "Multiply" -> COk("*")
      [] operator = "Divide" -> COk("/")
      [] self.shell = "Bash" /\ operator = "Equal" -> COk("==")
      [] self.shell = "Bash" /\ operator = "NotEqual" -> COk("!=")
      [] self.shell = "Bash" /\ operator = "LessThan" -> COk("<")
      [] self.shell = "Bash" /\ operator = "GreaterThan" -> COk(">")
      [] OTHER ->
            CErr(<<"CompilerError", "Operator is not implemented", operator,
                   condition_type.val, self.shell>>))

format_operator(self, operator, statement) ==
    Try(get_condition_type(statement), LAMBDA condition_type :
    Bind(<<self.shell, condition_type.val, operator>>, LAMBDA m :
    CASE operator = "Add" -> COk("+")
      [] operator = "Subtract" -> COk("-")
      [] operator = "Multiply" -> COk("*")
      [] operator = "Divide" -> COk("/")
      [] m = <<"Bash", "str", "Equal">> -> COk("==")
      [] m = <<"Bash", "str", "NotEqual">> -> COk("!=")
      [] m = <<"Bash", "str", "LessThan">> -> COk("<")
      [] m = <<"Bash", "str", "GreaterThan">> -> COk(">")
      [] m = <<"Bash", "int", "Equal">> -> COk("-eq")
      [] m = <<"Bash", "int", "NotEqual">> -> COk("-ne")
      [] m = <<"Bash", "int", "LessThan">> -> COk("-lt")
      [] m = <<"Bash", "int", "GreaterThan">> -> COk("-gt")
      [] m = <<"Bash", "int", "LessThanEq">> -> COk("-le")
      [] m = <<"Bash", "int", "GreaterThanEq">> -> COk("-ge")
      [] m = <<"Batch", "str", "Equal">> -> COk("==")
      [] m = <<"Batch", "str", "NotEqual">> -> COk("!=")
      [] m = <<"Batch", "int", "Equal">> -> COk("EQU")
      [] m = <<"Batch", "int", "NotEqual">> -> COk("NEQ")
      [] m = <<"Batch", "int", "LessThan">> -> COk("LSS")
      [] m = <<"Batch", "int", "GreaterThan">> -> COk("GTR")
      [] m = <<"Batch", "int", "LessThanEq">> -> COk("LEQ")
      [] m = <<"Batch", "int", "GreaterThanEq">> -> COk("GEQ")
      [] OTHER ->
            CErr(<<"CompilerError", "Operator is not implemented", operator,
                   condition_type.val, self.shell>>)))

\* The separator that path, exists and format_path put before each argument.
path_separator(self) == IF self.os = "Windows" THEN "\\" ELSE "/"

\* One argument of path / exists / format_path.
path_argument(arg) ==
    CASE arg.kind = "Identifier" -> COk("$" \o to_string(arg.name))
      [] arg.kind = "String" -> COk(to_string(arg.value))
      [] arg.kind = "Number" -> COk(to_string(arg.value))
      [] OTHER -> CErr(<<"CompilerError", "Unsupported argument type", arg>>)

\* for arg in args { ... output.push_str(separator + arg_str) }
RECURSIVE path_arguments(_, _, _)
path_arguments(self, args, output) ==
    IF args = <<>> THEN COk(output)
    ELSE Try(path_argument(Head(args)), LAMBDA arg_str :
         path_arguments(self, Tail(args), output \o path_separator(self) \o arg_str.val))

format_path(self, args) ==
    Try(path_arguments(self, args, "\""), LAMBDA output :
    COk(output.val \o "\"\n"))

allowed_std_functions ==
    {"cd", "print", "echo", "make_dir", "mkdir", "remove_dir", "rmdir", "remove",
     "del", "path", "copy", "cp", "move", "mv", "read", "exit", "exists"}

\* The argument loop of print / echo.
RECURSIVE echo_arguments(_, _, _)
echo_arguments(self, args, output) ==
    IF args = <<>> THEN COk(output)
    ELSE Bind(Head(args), LAMBDA arg :
         CASE arg.kind = "String" ->
                echo_arguments(self, Tail(args), output \o to_string(arg.value))
           [] arg.kind = "Identifier" ->
                echo_arguments(self, Tail(args),
                    IF self.shell = "Bash" THEN output \o "$" \o to_string(arg.name)
                    ELSE output \o "%%" \o to_string(arg.name) \o "%% ")
           [] arg.kind = "Number" ->
                echo_arguments(self, Tail(args), output \o to_string(arg.value))
           [] OTHER ->
                CErr(<<"CompilerError", "Unsupported argument type in print/echo", arg>>))

\* The argument loop of the call to a function outside the standard list.
RECURSIVE literal_arguments(_, _)
literal_arguments(args, output) ==
    IF args = <<>> THEN COk(output)
    ELSE Bind(Head(args), LAMBDA arg :
         CASE arg.kind = "Identifier" ->
                literal_arguments(Tail(args),
                                  output \o "\"$" \o to_string(arg.name) \o "\" ")
           [] arg.kind = "String" ->
                literal_arguments(Tail(args),
                                  output \o "\"" \o to_string(arg.value) \o "\" ")
           [] arg.kind = "Number" ->
                literal_arguments(Tail(args), output \o to_string(arg.value) \o " ")
           [] OTHER ->
                CErr(<<"CompilerError", "Unsupported argument type in function call",
                       arg>>))

RECURSIVE compile_statement(_, _)
RECURSIVE compile_body(_, _, _)
RECURSIVE compile_expr(_, _, _)
RECURSIVE compile_function_call(_, _, _)
RECURSIVE path_calls(_, _, _, _)

\* Mutant of path_calls: an argument that is not a call of path is skipped.
path_calls_lenient(self, args, output, msg) ==
    IF args = <<>> THEN COk(output)
    ELSE Bind(Head(args), LAMBDA arg :
         IF arg.kind = "Call" /\ to_string(arg.name) = "path"
         THEN Try(compile_function_call(self, arg.name, arg.args), LAMBDA arg_str :
              path_calls(self, Tail(args), output \o arg_str.val, msg))
         ELSE path_calls(self, Tail(args), output, msg))

\* The argument loop of copy / cp / move / mv: each argument a call of path.
path_calls(self, args, output, msg) ==
    IF args = <<>> THEN COk(output)
    ELSE Bind(Head(args), LAMBDA arg :
         IF arg.kind = "Call" /\ to_string(arg.name) = "path"
         THEN Try(compile_function_call(self, arg.name, arg.args), LAMBDA arg_str :
              path_calls(self, Tail(args), output \o arg_str.val, msg))
         ELSE CErr(<<"CompilerError", msg, arg>>))

\* Mutant of std_exit: both shells get the Bash line.
std_exit_one_form(self, args) ==
    IF args = <<>> THEN CompilerError("exit requires an exit code argument")
    ELSE IF args[1].kind # "Number"
    THEN CompilerError("First argument of exit must be a number")
    ELSE COk("exit " \o to_string(args[1].value) \o "\n")

\* The "exit" arm of compile_std_function_call.
std_exit(self, args) ==
    IF args = <<>> THEN CompilerError("exit requires an exit code argument")
    ELSE IF args[1].kind # "Number"
    THEN CompilerError("First argument of exit must be a number")
    ELSE IF self.shell = "Bash"
    THEN COk("exit " \o to_string(args[1].value) \o "\n")
    ELSE COk("exit /b " \o to_string(args[1].value) \o "\n")

compile_std_function_call(self, name, args) ==
    Bind(to_string(name), LAMBDA n :
    CASE n = "cd" ->
            IF args = <<>> THEN CompilerError("cd requires a directory argument")
            ELSE Try(format_path(self, args), LAMBDA p : COk("cd " \o p.val))
      [] n \in {"print", "echo"} ->
            IF args = <<>>
            THEN CompilerError("print/echo requires at least one argument")
            ELSE IF self.shell = "Bash"
            THEN Try(echo_arguments(self, args, "echo \""), LAMBDA output :
                 COk(output.val \o "\"\n"))
            ELSE Try(echo_arguments(self, args, "echo "), LAMBDA output :
                 COk(output.val \o "\n"))
      [] n \in {"make_dir", "mkdir"} ->
            IF args = <<>> THEN CompilerError("make_dir requires at least one argument")
            ELSE Try(format_path(self, args), LAMBDA p :
                 COk((IF self.shell = "Bash" THEN "mkdir -p " ELSE "mkdir ") \o p.val))
      [] n \in {"remove_dir", "rmdir"} ->
            IF args = <<>>
            THEN CompilerError("remove_dir requires at least one argument")
            ELSE Try(format_path(self, args), LAMBDA p : COk("rmdir " \o p.val))
      [] n \in {"remove", "del"} ->
            IF args = <<>> THEN CompilerError("remove requires at least one argument")
            ELSE Try(format_path(self, args), LAMBDA p :
                 COk((IF self.shell = "Bash" THEN "rm -f " ELSE "del /Q ") \o p.val))
      [] n = "path" ->
            IF args = <<>> THEN CompilerError("path requires at least one argument")
            ELSE Try(path_arguments(self, args, "\""), LAMBDA output :
                 COk(output.val \o "\" "))
      [] n \in {"copy", "cp"} ->
            IF Len(args) # 2 THEN CompilerError("copy/cp requires exactly two arguments")
            ELSE Try(path_calls(self, args,
                                IF self.shell = "Bash" THEN "cp " ELSE "copy ",
                                "copy/cp requires path() as argument"),
                     LAMBDA output : COk(output.val \o "\n"))
      [] n \in {"move", "mv"} ->
            IF Len(args) # 2 THEN CompilerError("move/mv requires exactly two arguments")
            ELSE Try(path_calls(self, args,
                                IF self.shell = "Bash" THEN "mv " ELSE "move ",
                                "move/mv requires path() as argument"),
                     LAMBDA output : COk(output.val \o "\n"))
      [] n = "read" ->
            IF Len(args) # 2 THEN CompilerError("read requires exactly two arguments")
            ELSE IF args[1].kind # "String"
            THEN CompilerError("First argument of read must be a string")
            ELSE IF args[2].kind # "Identifier"
            THEN CompilerError("Second argument of read must be an identifier")
            ELSE IF self.shell = "Bash"
            THEN COk("read -p \"" \o to_string(args[1].value) \o ": " \o "\" "
                     \o to_string(args[2].name) \o " " \o "\n")
            ELSE COk("set /p " \o to_string(args[2].name) \o "=" \o "\""
                     \o to_string(args[1].value) \o ": \"" \o "\n")
      [] n = "exit" -> std_exit(self, args)
      [] n = "exists" ->
            IF args = <<>> THEN CompilerError("exists requires a file path argument")
            ELSE Try(path_arguments(self, args, "-e " \o "\""), LAMBDA output :
                 COk(output.val \o "\""))
      [] OTHER -> CPanic("Standard function call compilation not implemented"))

compile_function_call(self, name, args) ==
    IF to_string(name) \in allowed_std_functions
    THEN compile_std_function_call(self, name, args)
    ELSE IF self.shell = "Batch" THEN CPanic("not yet implemented")
    ELSE Try(literal_arguments(args, to_string(name) \o " "), LAMBDA output :
         COk(output.val \o "\n"))

\* Mutant of binary_rendering: under Bash every tag gets the rendering of
\* the "int" tag.
binary_rendering_untagged(self, condition_type, operator, left_str, operator_str, right_str) ==
    CASE self.shell = "Bash" ->
            IF operator \in {"Add", "Subtract", "Multiply", "Divide"}
            THEN COk("$((" \o left_str \o " " \o operator_str \o " " \o right_str \o "))")
            ELSE COk(left_str \o " " \o operator_str \o " " \o right_str)
      [] OTHER ->
            CPanic("Batch shell compilation for binary expressions not implemented yet")

\* The match at the end of compile_expr's Binary arm.
binary_rendering(self, condition_type, operator, left_str, operator_str, right_str) ==
    CASE self.shell = "Bash" /\ condition_type = "int" ->
            IF operator \in {"Add", "Subtract", "Multiply", "Divide"}
            THEN COk("$((" \o left_str \o " " \o operator_str \o " " \o right_str \o "))")
            ELSE COk(left_str \o " " \o operator_str \o " " \o right_str)
      [] self.shell = "Bash" /\ condition_type = "str" ->
            COk("\"" \o left_str \o right_str \o "\"")
      [] OTHER ->
            CPanic("Batch shell compilation for binary expressions not implemented yet")

compile_expr(self, expr, parent_statement) ==
    CASE expr.kind = "Number" -> COk(to_string(expr.value))
      [] expr.kind = "String" -> COk("\"" \o to_string(expr.value) \o "\"")
      [] expr.kind = "Identifier" ->
            IF self.shell = "Batch" THEN COk("%%" \o to_string(expr.name) \o "%%")
            ELSE COk("$" \o to_string(expr.name))
      [] expr.kind = "Binary" ->
            Try(compile_expr(self, expr.left, parent_statement), LAMBDA left_str :
            Try(format_operator(self, expr.operator, parent_statement),
                LAMBDA operator_str :
            Try(compile_expr(self, expr.right, parent_statement), LAMBDA right_str :
            Try(get_condition_type(parent_statement), LAMBDA condition_type :
            binary_rendering(self, condition_type.val, expr.operator, left_str.val,
                             operator_str.val, right_str.val)))))
      [] expr.kind = "Call" -> compile_function_call(self, expr.name, expr.args)

\* for stmt in body { output.push_str(&self.compile_statement(stmt)?) }
compile_body(self, body, output) ==
    IF body = <<>> THEN COk(output)
    ELSE Try(compile_statement(self, Head(body)), LAMBDA text :
         compile_body(self, Tail(body), output \o text.val))

compile_let_stmt(self, name, value, parent_statement) ==
    Try(compile_expr(self, value, parent_statement), LAMBDA value_str :
    IF self.shell = "Batch"
    THEN COk("set " \o to_string(name) \o "=" \o value_str.val \o "\n")
    ELSE COk(to_string(name) \o "=" \o value_str.val \o "\n"))

compile_if_stmt(self, condition, then_branch, else_stmts, parent_statement) ==
    Try(compile_expr(self, condition, parent_statement), LAMBDA condition_str :
    Bind(self.shell = "Batch", LAMBDA batch :
    Try(compile_body(self, then_branch,
                     IF batch THEN "if " \o condition_str.val \o " (\n"
                     ELSE "if [[ " \o condition_str.val \o " ]]; then\n"),
        LAMBDA then_str :
    Try(IF else_stmts = <<>> THEN then_str
        ELSE compile_body(self, else_stmts[1],
                          then_str.val \o (IF batch THEN ") else (\n" ELSE "else\n")),
        LAMBDA output :
    COk(output.val \o (IF batch THEN ")\n" ELSE "fi\n"))))))

\* Mutant of compile_with_stmt: the body is compiled whatever the OS.
compile_with_stmt_ungated(self, os, body) == compile_body(self, body, "")

compile_with_stmt(self, os, body) ==
    CASE self.os = "Windows" /\ os = "Windows" -> compile_body(self, body, "")
      [] self.os = "Linux" /\ os = "Linux" -> compile_body(self, body, "")
      [] OTHER -> COk("")

compile_while_stmt(self, condition, body, parent_statement) ==
    Try(compile_expr(self, condition, parent_statement), LAMBDA condition_str :
    Bind(self.shell = "Batch", LAMBDA batch :
    Try(compile_body(self, body,
                     IF batch THEN ":while " \o condition_str.val \o " (\n"
                     ELSE "while [[ " \o condition_str.val \o " ]]; do\n"),
        LAMBDA output :
    COk(output.val \o (IF batch THEN ")\n" ELSE "done\n")))))

\* for (index, arg) in arguments.iter().enumerate() { ... }
RECURSIVE function_arguments(_, _, _)
function_arguments(arguments, index, output) ==
    IF index >= Len(arguments) THEN COk(output)
    ELSE IF arguments[index + 1].kind # "Identifier"
    THEN CompilerError("Function arguments must be identifiers")
    ELSE function_arguments(arguments, index + 1,
            output \o "local " \o to_string(arguments[index + 1].name) \o "=$"
                   \o ToString(index + 1) \o "\n")

compile_function(self, name, args, body) ==
    IF self.shell = "Batch"
    THEN CPanic("Batch shell compilation for functions not implemented yet")
    ELSE Try(function_arguments(IF args = <<>> THEN <<>> ELSE args[1], 0,
                                to_string(name) \o "() {\n"),
             LAMBDA head :
         Try(compile_body(self, body, head.val), LAMBDA output :
         COk(output.val \o "}\n")))

\* for instruction in instructions { ... }
RECURSIVE raw_instructions(_, _, _)
raw_instructions(self, instructions, output) ==
    IF instructions = <<>> THEN COk(output)
    ELSE Bind(Head(instructions), LAMBDA instruction :
         CASE instruction.kind = "String" ->
                raw_instructions(self, Tail(instructions),
                                 output \o "\"" \o to_string(instruction.value) \o "\" ")
           [] instruction.kind = "Identifier" ->
                raw_instructions(self, Tail(instructions),
                                 output \o to_string(instruction.name) \o " ")
           [] instruction.kind = "Binary" ->
                Try(current_statement(self), LAMBDA cur1 :
                Try(compile_expr(self, instruction.left, cur1.val), LAMBDA left_str :
                Try(current_statement(self), LAMBDA cur2 :
                Try(format_operator(self, instruction.operator, cur2.val),
                    LAMBDA operator_str :
                Try(current_statement(self), LAMBDA cur3 :
                Try(compile_expr(self, instruction.right, cur3.val), LAMBDA right_str :
                raw_instructions(self, Tail(instructions),
                    output \o left_str.val \o " " \o operator_str.val \o " "
                           \o right_str.val \o " ")))))))
           [] instruction.kind = "Number" ->
                raw_instructions(self, Tail(instructions),
                                 output \o to_string(instruction.value) \o " ")
           [] OTHER -> CErr(<<"CompilerError", "Unsupported raw instruction", instruction>>))

compile_raw_instruction(self, instructions) ==
    Try(raw_instructions(self, instructions, ""), LAMBDA output :
    COk(output.val \o "\n"))

compile_statement(self, statement) ==
    CASE statement.kind = "Let" ->
            compile_let_stmt(self, statement.name, statement.value, statement)
      [] statement.kind = "If" ->
            compile_if_stmt(self, statement.condition, statement.then_branch,
                            statement.else_branch, statement)
      [] statement.kind = "With" -> compile_with_stmt(self, statement.os, statement.body)
      [] statement.kind = "While" ->
            compile_while_stmt(self, statement.condition, statement.body, statement)
      [] statement.kind = "Function" ->
            compile_function(self, statement.name, statement.arguments, statement.body)
      [] statement.kind = "Expression" ->
            IF statement.expr.kind = "Call"
            THEN compile_function_call(self, statement.expr.name, statement.expr.args)
            ELSE CompilerError("Expression is not a function call")
      [] statement.kind = "RawInstruction" ->
            compile_raw_instruction(self, statement.instructions)

\* ------------------------------------------------------------------------
\* State
\* ------------------------------------------------------------------------
VARIABLES
    input,       \* Lexer.input
    position,    \* Lexer.position
    tokens,      \* tokenise's token vector; the Ok value once lexStatus = "ok"
    lexStatus,   \* "running" inside the loop, "ok" / "err" once tokenise returned
    lexError,    \* the Err value once lexStatus = "err"
    iterStart,   \* history: the cursor at which the latest iteration began
    ptokens,     \* Parser.tokens
    ppos,        \* Parser.position
    statements,  \* parse's statement vector; the Ok value once parseStatus = "ok"
    parseStatus, \* "running" inside parse's loop, "ok" / "err" once it returned
    parseError,  \* the Err value once parseStatus = "err"
    cstatements, \* Compiler.statements
    cpos,        \* Compiler.position
    target_os,   \* Compiler.os
    target_shell,  \* Compiler.shell
    output,      \* compile's output text; the Ok value once compileStatus = "ok"
    compileStatus, \* "running" inside compile's loop, then "ok" / "err" / "panic"
    compileError, \* the Err value or the panic once compile has ended with one
    previous     \* history: what the previous call of compile returned, if any

lexVars == <<input, position, tokens, lexStatus, lexError, iterStart>>

parseVars == <<ptokens, ppos, statements, parseStatus, parseError>>

compileVars ==
    <<cstatements, cpos, target_os, target_shell, output, compileStatus, compileError,
      previous>>

vars == <<lexVars, parseVars, compileVars>>

RECURSIVE SeqsUpTo(_, _)
SeqsUpTo(S, n) ==
    IF n = 0 THEN {<<>>}
    ELSE LET shorter == SeqsUpTo(S, n - 1)
         IN  shorter \cup {Append(s, c) : s \in {t \in shorter : Len(t) = n - 1}, c \in S}

\* One character of every class the tokenizer distinguishes.
Alphabet ==
    {" ", "1", ".", "a", "\"", "!", "|", "=", "<", ">", "/", "*", "#",
     "U+00E9", "U+20AC"}

OpAlphabet == {"a", " ", "=", "<", ">"}

CommentAlphabet == {"/", "*", "a", " "}

NumAlphabet == {"0", "1", "5", "."}

\* The characters of the one-character operators and of the first
\* character of the two-character ones.
OperatorChars == {"=", "<", ">", "+", "-", "*", "/"}

\* An operand, an operator and a character right after it, with and
\* without blanks around the operator.
OperatorInputs ==
    UNION {{<<"a", c, x>>, <<"a", " ", c, " ", x>>} :
            c \in OperatorChars, x \in {"b", "1", "(", "-", ">"}}

Inputs ==
    SeqsUpTo(Alphabet, MaxLen) \cup SeqsUpTo(OpAlphabet, MaxOpLen)
        \cup SeqsUpTo(CommentAlphabet, MaxCommentLen)
        \cup SeqsUpTo(NumAlphabet, MaxNumLen)
        \cup OperatorInputs

NoIter == -1

\* No parser has been constructed.
ParserIdle ==
    /\ ptokens = <<>>
    /\ ppos = 0
    /\ statements = <<>>
    /\ parseStatus = "idle"
    /\ parseError = NoError

\* compile has not been called before on this Compiler.
NoCall == <<>>

\* No compiler has been constructed.
CompilerIdle ==
    /\ cstatements = <<>>
    /\ cpos = 0
    /\ target_os = "Linux"
    /\ target_shell = "Bash"
    /\ output = ""
    /\ compileStatus = "idle"
    /\ compileError = NoError
    /\ previous = NoCall

\* No lexer has been constructed.
LexerIdle ==
    /\ input = <<>>
    /\ position = 0
    /\ tokens = <<>>
    /\ lexStatus = "idle"
    /\ lexError = NoError
    /\ iterStart = NoIter

\* Lexer::new
LexInit ==
    /\ input \in Inputs
    /\ position = 0
    /\ tokens = <<>>
    /\ lexStatus = "running"
    /\ lexError = NoError
    /\ iterStart = NoIter
    /\ ParserIdle
    /\ CompilerIdle

\* The iteration that the arm `arm` of the match handles.
LexArm(arm) ==
    /\ Arm(input, position) = arm
    /\ LET s == Iterate(input, position, tokens)
       IN  /\ lexStatus' = s.status
           /\ position' = s.pos
           /\ tokens' = s.tokens
           /\ lexError' = s.error
    /\ iterStart' = position
    /\ UNCHANGED <<input, parseVars, compileVars>>

LexWhitespace ==
    /\ lexStatus = "running"
    /\ LexArm("whitespace")

LexNumber ==
    /\ lexStatus = "running"
    /\ LexArm("number")

\* An identifier start that is no identifier continuation is read as the
\* empty identifier without advancing; the model stops such a run once the
\* token vector holds MaxSpin tokens more than a terminating run can emit.
LexIdentifier ==
    /\ lexStatus = "running"
    /\ Len(tokens) <= Len(input) + MaxSpin
    /\ LexArm("identifier")

LexString ==
    /\ lexStatus = "running"
    /\ LexArm("string")

LexBang ==
    /\ lexStatus = "running"
    /\ LexArm("bang")

LexPipe ==
    /\ lexStatus = "running"
    /\ LexArm("pipe")

LexPunctuation ==
    /\ lexStatus = "running"
    /\ LexArm("punctuation")

LexInvalidToken ==
    /\ lexStatus = "running"
    /\ LexArm("invalid")

LexEOF ==
    /\ lexStatus = "running"
    /\ LexArm("eof")

LexNext ==
    \/ LexWhitespace
    \/ LexNumber
    \/ LexIdentifier
    \/ LexString
    \/ LexBang
    \/ LexPipe
    \/ LexPunctuation
    \/ LexInvalidToken
    \/ LexEOF

Spec == LexInit /\ [][LexNext]_vars

\* ------------------------------------------------------------------------
\* Parser state machine: one action per pass of parse's loop
\* ------------------------------------------------------------------------
PrimaryTokens == {TokV("Identifier", <<"a">>), TokV("Number", <<"1">>)}

OperatorTokens ==
    {Tok(t) : t \in {"Equal", "NotEqual", "GreaterThan", "GreaterThanEq", "LessThan",
                     "LessThanEq", "Plus", "Minus", "Multiply", "Divide"}}

\* primary (operator primary)^n, for n up to k
RECURSIVE OperatorChains(_)
OperatorChains(k) ==
    IF k = 0 THEN {<<p>> : p \in PrimaryTokens}
    ELSE LET shorter == OperatorChains(k - 1)
         IN  shorter \cup
             {s \o <<op, p>> : s \in {t \in shorter : Len(t) = 2 * k - 1},
                               op \in OperatorTokens, p \in PrimaryTokens}

CallTokens ==
    {TokV("Identifier", <<"f">>), Tok("LParen"), Tok("RParen"), Tok("Semicolon")}

CallOperandTokens == CallTokens \cup {Tok("Plus")}

Id(n) == TokV("Identifier", <<n>>)

\* a1 , a2 , ... , an
RECURSIVE CommaSeparated(_)
CommaSeparated(names) ==
    IF names = <<>> THEN <<>>
    ELSE IF Len(names) = 1 THEN <<Id(names[1])>>
    ELSE <<Id(names[1]), Tok("Comma")>> \o CommaSeparated(Tail(names))

ArgumentNames == {"a", "b"}

\* fn f ( a1 , ... , an ) { }
FnDecl(names) ==
    <<Tok("Function"), Id("f"), Tok("LParen")>> \o CommaSeparated(names)
        \o <<Tok("RParen"), Tok("LBrace"), Tok("RBrace")>>

FnDecls == {FnDecl(names) : names \in SeqsUpTo(ArgumentNames, MaxArgs)}

\* One well-formed statement of each kind that has mandatory delimiters.
DelimitedStatements ==
    FnDecls \cup
    {<<Tok("Let"), Id("int"), Id("a"), Tok("Assign"), TokV("Number", <<"1">>),
       Tok("Semicolon")>>,
     <<Tok("If"), Id("int"), Tok("LParen"), Id("a"), Tok("RParen"),
       Tok("LBrace"), Tok("RBrace")>>,
     <<Tok("If"), Id("int"), Tok("LParen"), Id("a"), Tok("RParen"),
       Tok("LBrace"), Tok("RBrace"), Tok("Else"), Tok("LBrace"), Tok("RBrace")>>,
     <<Tok("With"), Id("linux"), Tok("LBrace"), Tok("RBrace")>>,
     <<Tok("While"), Id("int"), Tok("LParen"), Id("a"), Tok("RParen"),
       Tok("LBrace"), Tok("RBrace")>>,
     <<Tok("RawInstruction"), Id("a"), Tok("Semicolon")>>}

Delimiters == {Tok(t) : t \in {"LBrace", "RBrace", "LParen", "RParen", "Semicolon"}}

DropAt(s, i) == SubSeq(s, 1, i - 1) \o SubSeq(s, i + 1, Len(s))

\* Each delimited statement, whole and with one of its tokens left out.
MissingDelimiterInputs ==
    DelimitedStatements \cup
    UNION {{DropAt(s, i) : i \in 1..Len(s)} : s \in DelimitedStatements}

\* What a raw instruction embeds: a literal, an identifier, a binary
\* expression or a call.
RawExpressions ==
    {<<TokV("Number", <<"1">>)>>, <<TokV("String", <<"s">>)>>, <<Id("a")>>,
     <<Id("a"), Tok("Plus"), TokV("Number", <<"1">>)>>,
     <<Id("f"), Tok("LParen"), Tok("RParen")>>}

\* The statement that follows a raw instruction.
Followers == {<<>>, <<Id("b")>>, <<Id("b"), Tok("Semicolon")>>}

\* |> e1 ... en ; follower
RawStatements ==
    {<<Tok("RawInstruction")>> \o e1 \o e2 \o <<Tok("Semicolon")>> \o f :
        e1 \in RawExpressions, e2 \in RawExpressions \cup {<<>>}, f \in Followers}

\* The number of '(' in a token sequence.
ParenCount(s) == Cardinality({i \in 1..Len(s) : s[i] = Tok("LParen")})

\* Statements whose blocks hold statements, and the same cut off inside a
\* block.
NestedBlockInputs ==
    {<<Tok("While"), Id("int"), Tok("LParen"), Id("a"), Tok("RParen"), Tok("LBrace")>>
        \o inner \o close :
        inner \in {<<Tok("With"), Id("linux"), Tok("LBrace")>>,
                   <<Tok("With"), Id("linux"), Tok("LBrace"), Tok("RBrace")>>,
                   <<Tok("RawInstruction"), Id("a"), Tok("Semicolon")>>,
                   <<Tok("RawInstruction"), Id("a")>>,
                   <<Tok("Let"), Id("int"), Id("a"), Tok("Assign"),
                     TokV("Number", <<"1">>), Tok("Semicolon")>>},
        close \in {<<>>, <<Tok("RBrace")>>, <<Tok("RBrace"), Tok("RBrace")>>}}

\* The token sequences parsed: those that end with the EOF the tokenizer
\* appends, and delimited statements as a caller of Parser::new may pass
\* them, without it.
TokenInputs ==
    {s \o <<EOF>> :
        s \in OperatorChains(MaxOperators)
                \cup {t \in SeqsUpTo(CallTokens, MaxCallLen) : ParenCount(t) <= MaxParens}
                \cup {t \in SeqsUpTo(CallOperandTokens, MaxCallOperandLen) :
                        ParenCount(t) <= MaxParens}
                \cup MissingDelimiterInputs
                \cup RawStatements
                \cup NestedBlockInputs}
        \cup MissingDelimiterInputs \cup NestedBlockInputs

\* Parser::new
ParseInit ==
    /\ ptokens \in TokenInputs
    /\ ppos = 0
    /\ statements = <<>>
    /\ parseStatus = "running"
    /\ parseError = NoError
    /\ LexerIdle
    /\ CompilerIdle

\* statements.push(self.parse_stmt()?) with parse_stmt returning Ok
ParseStatement ==
    /\ parseStatus = "running"
    /\ current_token(ptokens, ppos) # EOF
    /\ \E st \in {parse_stmt(ptokens, ppos)} :
           /\ st.ok
           /\ statements' = Append(statements, st.val)
           /\ ppos' = st.pos
    /\ UNCHANGED <<ptokens, parseStatus, parseError, lexVars, compileVars>>

\* Mutant of ParseStatementError: the cursor is put back to the start.
ParseStatementErrorRewinds ==
    /\ parseStatus = "running"
    /\ current_token(ptokens, ppos) # EOF
    /\ \E st \in {parse_stmt(ptokens, ppos)} :
           /\ ~st.ok
           /\ parseStatus' = "err"
           /\ parseError' = st.err
           /\ ppos' = 0
           /\ statements' = <<>>
    /\ UNCHANGED <<ptokens, lexVars, compileVars>>

\* statements.push(self.parse_stmt()?) with parse_stmt returning Err: parse
\* returns the error and its statement vector is dropped
ParseStatementError ==
    /\ parseStatus = "running"
    /\ current_token(ptokens, ppos) # EOF
    /\ \E st \in {parse_stmt(ptokens, ppos)} :
           /\ ~st.ok
           /\ parseStatus' = "err"
           /\ parseError' = st.err
           /\ ppos' = st.pos
           /\ statements' = <<>>
    /\ UNCHANGED <<ptokens, lexVars, compileVars>>

\* the loop ends on EOF: Ok(statements)
ParseReturn ==
    /\ parseStatus = "running"
    /\ current_token(ptokens, ppos) = EOF
    /\ parseStatus' = "ok"
    /\ UNCHANGED <<ptokens, ppos, statements, parseError, lexVars, compileVars>>

ParseNext ==
    \/ ParseStatement
    \/ ParseStatementError
    \/ ParseReturn

SpecParse == ParseInit /\ [][ParseNext]_vars

\* parse is one sequential loop: a pass that can be taken is taken.
SpecParseFair == ParseInit /\ [][ParseNext]_vars /\ WF_vars(ParseNext)

\* ------------------------------------------------------------------------
\* Compiler state machine: one action per pass of compile's loop
\* ------------------------------------------------------------------------
Name(n) == ExprIdentifier(<<n>>)

ArithmeticOps == {"Add", "Subtract", "Multiply", "Divide"}

ComparisonOps ==
    {"Equal", "NotEqual", "LessThan", "GreaterThan", "LessThanEq", "GreaterThanEq"}

\* The conventional tags and one that is neither.
Tags == {<<"int">>, <<"str">>, <<"bool">>}

RawCompare == StmtRawInstruction(<<ExprBinary(Name("a"), "Equal", Name("b"))>>)

EchoCall == StmtExpression(ExprCall(<<"echo">>, <<ExprString(<<"hi">>)>>))

LetOne == StmtLet(<<"int">>, <<"x">>, ExprNumber(<<"1">>))

BareIdentifier == StmtExpression(Name("a"))

LeftOperands == {Name("a"), ExprNumber(<<"1">>), ExprString(<<"s">>)}

RightOperands == {Name("b"), ExprNumber(<<"2">>)}

\* let tag x = l op r;
LetBinaryStatements ==
    {StmtLet(t, <<"x">>, ExprBinary(l, op, r)) :
        t \in Tags, op \in ArithmeticOps \cup ComparisonOps,
        l \in LeftOperands, r \in RightOperands}

\* if tag (a op b) { } and while tag (a op b) { }
ConditionStatements ==
    {StmtIf(t, ExprBinary(Name("a"), op, Name("b")), <<>>, <<>>) :
        t \in Tags, op \in ArithmeticOps \cup ComparisonOps}
    \cup {StmtWhile(t, ExprBinary(Name("a"), op, Name("b")), <<>>) :
        t \in Tags, op \in ArithmeticOps \cup ComparisonOps}

WithBodies ==
    {<<>>, <<EchoCall>>, <<LetOne, EchoCall>>, <<BareIdentifier>>,
     <<StmtFunction(<<"f">>, <<>>, <<>>)>>, <<EchoCall, BareIdentifier>>}

\* with os { body }
WithStatements == {StmtWith(os, body) : os \in OS, body \in WithBodies}

\* A raw instruction in a typed block nested in another typed block.
NestedRawStatements ==
    {StmtIf(t1, Name("c"), <<StmtWhile(t2, Name("c"), <<RawCompare>>)>>, <<>>) :
        t1 \in Tags, t2 \in Tags}
    \cup {StmtWhile(t1, Name("c"), <<StmtIf(t2, Name("c"), <<RawCompare>>, <<>>)>>) :
        t1 \in Tags, t2 \in Tags}
    \cup {StmtIf(t, Name("c"), <<RawCompare>>, <<>>) : t \in Tags}

\* Function declarations, calls inside and outside the standard list, and
\* expressions outside every typed statement.
OtherStatements ==
    {StmtFunction(<<"f">>, <<>>, <<>>),
     StmtFunction(<<"f">>, << <<Name("a"), Name("b")>> >>, <<EchoCall>>),
     StmtFunction(<<"f">>, << <<ExprNumber(<<"1">>)>> >>, <<>>),
     StmtExpression(ExprCall(<<"git">>, <<Name("a"), ExprString(<<"s">>),
                                         ExprNumber(<<"1">>)>>)),
     StmtExpression(ExprCall(<<"git">>, <<>>)),
     StmtExpression(ExprCall(<<"git">>, <<ExprBinary(Name("a"), "Add", Name("b"))>>)),
     StmtExpression(ExprCall(<<"git">>, <<ExprString(<<"s">>), EchoCall.expr>>)),
     StmtExpression(ExprCall(<<"git">>, <<ExprNumber(<<"1">>), Name("a")>>)),
     EchoCall, BareIdentifier, LetOne, RawCompare,
     StmtRawInstruction(<<ExprString(<<"s">>), Name("a"), ExprNumber(<<"1">>)>>),
     StmtRawInstruction(<<ExprCall(<<"git">>, <<>>)>>)}

PathA == ExprCall(<<"path">>, <<ExprString(<<"a">>)>>)

PathB == ExprCall(<<"path">>, <<Name("b"), ExprString(<<"c">>)>>)

\* exit(...); with and without a numeric first argument
ExitArguments ==
    {<<>>, <<ExprNumber(<<"0">>)>>, <<ExprNumber(<<"1">>)>>, <<ExprString(<<"s">>)>>,
     <<Name("a")>>, <<ExprNumber(<<"1">>), ExprNumber(<<"2">>)>>,
     <<ExprNumber(<<"3">>), ExprString(<<"s">>)>>,
     <<ExprString(<<"s">>), ExprNumber(<<"1">>)>>,
     <<ExprBinary(ExprNumber(<<"1">>), "Add", ExprNumber(<<"2">>))>>}

ExitStatements == {StmtExpression(ExprCall(<<"exit">>, args)) : args \in ExitArguments}

CopyNames == {"copy", "cp", "move", "mv"}

\* Argument lists of copy / cp / move / mv: none to three arguments, calls
\* of path and arguments of every other kind.
CopyArguments ==
    {<<>>, <<PathA>>, <<PathA, PathB>>, <<PathB, PathA>>, <<PathA, PathB, PathA>>,
     <<PathA, ExprString(<<"s">>)>>, <<Name("a"), PathB>>,
     <<ExprString(<<"a">>), ExprString(<<"b">>)>>, <<ExprNumber(<<"1">>), PathA>>,
     <<PathA, ExprCall(<<"git">>, <<>>)>>,
     <<PathA, ExprCall(<<"path">>, <<>>)>>,
     <<ExprBinary(Name("a"), "Add", Name("b")), PathA>>,
     <<ExprString(<<"s">>)>>, <<ExprString(<<"a">>), PathA, PathB>>}

CopyStatements ==
    {StmtExpression(ExprCall(<<n>>, args)) : n \in CopyNames, args \in CopyArguments}

\* Argument lists of path: none to three arguments of the three kinds it
\* renders and one of a kind it does not.
PathArguments ==
    {<<>>, <<ExprString(<<"a">>)>>, <<Name("a")>>, <<ExprNumber(<<"1">>)>>,
     <<ExprString(<<"a">>), ExprString(<<"b">>)>>,
     <<Name("a"), ExprString(<<"b">>), ExprNumber(<<"1">>)>>,
     <<ExprString(<<"a">>), ExprString(<<"b">>), ExprString(<<"c">>)>>,
     <<ExprString(<<"a">>), ExprBinary(Name("a"), "Add", Name("b"))>>}

PathStatements == {StmtExpression(ExprCall(<<"path">>, args)) : args \in PathArguments}

\* The standard functions that take a path or a list of texts.
IdentifierFunctions ==
    {"cd", "make_dir", "mkdir", "remove_dir", "rmdir", "remove", "del", "exists",
     "print", "echo"}

\* Each construct that accepts an identifier, with the identifier `a` in it.
IdentifierStatements ==
    {StmtExpression(ExprCall(<<n>>, args)) :
        n \in IdentifierFunctions,
        args \in {<<Name("a")>>, <<ExprString(<<"s">>), Name("a")>>, <<>>}}
    \cup {StmtLet(t, <<"x">>, Name("a")) : t \in Tags}
    \cup {StmtIf(t, Name("a"), <<>>, <<>>) : t \in Tags}
    \cup {StmtWhile(t, Name("a"), <<>>) : t \in Tags}
    \cup {StmtExpression(ExprCall(<<"read">>, args)) :
            args \in {<<ExprString(<<"p">>), Name("a")>>, <<Name("a"), Name("a")>>,
                      <<ExprString(<<"p">>)>>, <<ExprString(<<"p">>), ExprString(<<"q">>)>>}}

StdCallStatements ==
    ExitStatements \cup CopyStatements \cup PathStatements \cup IdentifierStatements

\* The statements that programs of several statements are made of.
SequencePool ==
    {LetOne, EchoCall, BareIdentifier, StmtFunction(<<"f">>, <<>>, <<>>),
     StmtWith("Linux", <<EchoCall>>), StmtWith("Linux", <<EchoCall, BareIdentifier>>),
     StmtExpression(ExprCall(<<"exit">>, <<>>)), RawCompare,
     StmtIf(<<"int">>, Name("c"), <<RawCompare>>, <<>>)}

Programs ==
    SeqsUpTo(SequencePool, MaxProgramLen)
        \cup {<<st>> : st \in LetBinaryStatements \cup ConditionStatements
                              \cup WithStatements \cup NestedRawStatements
                              \cup OtherStatements \cup StdCallStatements}

\* The compiler as its functions see it.
CompilerSelf ==
    [statements |-> cstatements, position |-> cpos, os |-> target_os,
     shell |-> target_shell]

\* Compiler::new, then let mut output = String::new()
CompileInit ==
    /\ cstatements \in Programs
    /\ cpos = 0
    /\ target_os \in OS
    /\ target_shell \in Shell
    /\ output = ""
    /\ compileStatus = "running"
    /\ compileError = NoError
    /\ previous = NoCall
    /\ LexerIdle
    /\ ParserIdle

\* output.push_str(compile_statement(current_statement())?); position += 1
CompileStatement ==
    /\ compileStatus = "running"
    /\ cpos < Len(cstatements)
    /\ \E cur \in {current_statement(CompilerSelf)} :
       \E text \in {compile_statement(CompilerSelf, cur.val)} :
           /\ text.ok
           /\ output' = output \o text.val
           /\ cpos' = cpos + 1
    /\ UNCHANGED <<cstatements, target_os, target_shell, compileStatus, compileError,
                   previous, lexVars, parseVars>>

\* Mutant of CompileStatementError: the error is dropped and the loop goes
\* on with the next statement.
CompileStatementErrorSkipped ==
    /\ compileStatus = "running"
    /\ cpos < Len(cstatements)
    /\ \E cur \in {current_statement(CompilerSelf)} :
       \E text \in {compile_statement(CompilerSelf, cur.val)} :
           /\ ~text.ok
           /\ ~text.panic
           /\ cpos' = cpos + 1
    /\ UNCHANGED <<cstatements, target_os, target_shell, output, compileStatus,
                   compileError, previous, lexVars, parseVars>>

\* compile_statement returns Err: compile returns it and its output is dropped
CompileStatementError ==
    /\ compileStatus = "running"
    /\ cpos < Len(cstatements)
    /\ \E cur \in {current_statement(CompilerSelf)} :
       \E text \in {compile_statement(CompilerSelf, cur.val)} :
           /\ ~text.ok
           /\ ~text.panic
           /\ compileStatus' = "err"
           /\ compileError' = text.err
           /\ output' = ""
    /\ UNCHANGED <<cstatements, cpos, target_os, target_shell, previous, lexVars,
                   parseVars>>

\* compile_statement panics: compile unwinds and returns nothing
CompileStatementPanic ==
    /\ compileStatus = "running"
    /\ cpos < Len(cstatements)
    /\ \E cur \in {current_statement(CompilerSelf)} :
       \E text \in {compile_statement(CompilerSelf, cur.val)} :
           /\ text.panic
           /\ compileStatus' = "panic"
           /\ compileError' = text.err
           /\ output' = ""
    /\ UNCHANGED <<cstatements, cpos, target_os, target_shell, previous, lexVars,
                   parseVars>>

\* the loop ends: Ok(output)
CompileReturn ==
    /\ compileStatus = "running"
    /\ cpos >= Len(cstatements)
    /\ compileStatus' = "ok"
    /\ UNCHANGED <<cstatements, cpos, target_os, target_shell, output, compileError,
                   previous, lexVars, parseVars>>

CompileNext ==
    \/ CompileStatement
    \/ CompileStatementError
    \/ CompileStatementPanic
    \/ CompileReturn

SpecCompile == CompileInit /\ [][CompileNext]_vars

\* Mutant of CompileAgain: the call starts again at the first statement.
CompileAgainFromStart ==
    /\ compileStatus \in {"ok", "err"}
    /\ previous' = [status |-> compileStatus, output |-> output,
                    error |-> compileError, position |-> cpos]
    /\ cpos' = 0
    /\ output' = ""
    /\ compileStatus' = "running"
    /\ compileError' = NoError
    /\ UNCHANGED <<cstatements, target_os, target_shell, lexVars, parseVars>>

\* compile is called again on the Compiler after it returned: a new output
\* text, the fields of the Compiler as the call before left them.
CompileAgain ==
    /\ compileStatus \in {"ok", "err"}
    /\ previous' = [status |-> compileStatus, output |-> output,
                    error |-> compileError, position |-> cpos]
    /\ output' = ""
    /\ compileStatus' = "running"
    /\ compileError' = NoError
    /\ UNCHANGED <<cstatements, cpos, target_os, target_shell, lexVars, parseVars>>

CompileAgainNext ==
    \/ CompileNext
    \/ CompileAgain

\* A caller that calls compile any number of times on one Compiler.
SpecCompileAgain == CompileInit /\ [][CompileAgainNext]_vars

\* ------------------------------------------------------------------------
\* Tokenizer properties
\* ------------------------------------------------------------------------
\* The latest iteration began on character c.
IterOn(c) == iterStart # NoIter /\ CharAt(input, iterStart) = c

LastToken == tokens[Len(tokens)]

\* C1: whenever tokenise returns Ok, the token sequence is non-empty, its
\* last element is EOF and EOF occurs nowhere else in it.
C1_ExactlyOneEOFLast ==
    lexStatus = "ok" =>
        /\ tokens # <<>>
        /\ LastToken = EOF
        /\ \A i \in 1..(Len(tokens) - 1) : tokens[i].type # "EOF"

C1_Witness == lexStatus = "ok" /\ Len(tokens) >= 3

\* C2: an iteration that begins on '<' or '>' emits the or-equal token and
\* consumes two characters when the next character is '=', and otherwise
\* emits LessThan / GreaterThan and consumes one character.
C2_OrEqualLookahead ==
    (IterOn("<") \/ IterOn(">")) =>
        LET lt == CharAt(input, iterStart) = "<"
            eq == CharAt(input, iterStart + 1) = "="
            expected ==
                IF lt THEN (IF eq THEN "LessThanEq" ELSE "LessThan")
                ELSE (IF eq THEN "GreaterThanEq" ELSE "GreaterThan")
        IN  /\ lexStatus = "running"
            /\ tokens # <<>>
            /\ LastToken = Tok(expected)
            /\ position = iterStart + (IF eq THEN 2 ELSE 1)

InsertAt(s, k, c) == SubSeq(s, 1, k) \o c \o SubSeq(s, k + 1, Len(s))

SampleComments ==
    {<<"/", "*", "*", "/">>,
     <<"/", "*", "a", "*", "/">>,
     <<"/", "*", " ", "*", "*", "/">>}

\* C3: a terminated block comment inserted between two tokens (at the cursor
\* of a loop iteration, after a token and before the rest of the text)
\* leaves the result of tokenise unchanged.
C3_CommentDiscarded ==
    (lexStatus = "running" /\ tokens # <<>> /\ position < Len(input)) =>
        \A c \in SampleComments :
            tokenise(InsertAt(input, position, c)) = tokenise(input)

NoQuoteFrom(k) == \A i \in k..(Len(input) - 1) : CharAt(input, i) # "\""

\* C4: an iteration that begins on a double quote with no double quote
\* after it makes tokenise return an error.
C4_UnterminatedStringIsError ==
    (IterOn("\"") /\ NoQuoteFrom(iterStart + 1)) => lexStatus = "err"

\* A "*/" lies wholly after the "/*" that opens at k.
ClosedAfter(k) ==
    \E i \in (k + 2)..(Len(input) - 2) :
        CharAt(input, i) = "*" /\ CharAt(input, i + 1) = "/"

\* C5: an iteration that begins on "/*" with no later "*/" returns an error
\* and no tokens; when it does not fail, the cursor stands right after a
\* '*' immediately followed by '/' that lies after the opener.
C5_UnterminatedCommentIsError ==
    (IterOn("/") /\ CharAt(input, iterStart + 1) = "*") =>
        /\ ~ClosedAfter(iterStart) => (lexStatus = "err" /\ tokens = <<>>)
        /\ lexStatus # "err" =>
            /\ position >= iterStart + 4
            /\ CharAt(input, position - 2) = "*"
            /\ CharAt(input, position - 1) = "/"

C5_Witness ==
    /\ IterOn("/")
    /\ iterStart > 0
    /\ CharAt(input, iterStart + 1) = "*"
    /\ Len(input) >= iterStart + 3
    /\ lexStatus = "err"

\* The punctuation of the surface syntax handled by determine_punctuation.
RecognizedPunctuation ==
    {"=", "+", "-", "*", "/", "<", ">", "(", ")", "{", "}", "[", "]", ",", ";"}

Unrecognized(c) ==
    /\ c # None
    /\ ~IsAsciiWhitespace(c)
    /\ ~IsAsciiDigit(c)
    /\ ~(IsAlphabetic(c) \/ c = "_")
    /\ c \notin {"\"", "!", "|"}
    /\ c \notin RecognizedPunctuation

\* C6: an iteration that begins on an unrecognized character returns an
\* error: InvalidPunctuation(c) for ASCII punctuation, InvalidToken(c) for
\* any other character.
C6_UnrecognizedCharacterIsError ==
    (iterStart # NoIter /\ Unrecognized(CharAt(input, iterStart))) =>
        LET c == CharAt(input, iterStart)
        IN  /\ lexStatus = "err"
            /\ lexError = IF IsAsciiPunctuation(c)
                          THEN <<"InvalidPunctuation", c>>
                          ELSE <<"InvalidToken", c>>

C6_Witness ==
    /\ iterStart > 0
    /\ lexStatus = "err"
    /\ lexError = <<"InvalidPunctuation", "#">>

DigitChars == <<"0", "1", "2", "3", "4", "5", "6", "7", "8", "9">>

DigitValue(c) == (CHOOSE i \in 1..Len(DigitChars) : DigitChars[i] = c) - 1

\* The digits of decimal text read as one integer, the point ignored.
RECURSIVE Mantissa(_)
Mantissa(s) ==
    IF s = <<>> THEN 0
    ELSE IF s[Len(s)] = "." THEN Mantissa(SubSeq(s, 1, Len(s) - 1))
    ELSE DigitValue(s[Len(s)]) + 10 * Mantissa(SubSeq(s, 1, Len(s) - 1))

FractionDigits(s) == IF CountDots(s) = 0 THEN 0 ELSE Len(s) - DotIndex(s)

RECURSIVE Pow10(_)
Pow10(n) == IF n = 0 THEN 1 ELSE 10 * Pow10(n - 1)

\* Two decimal texts denote the same number.
SameNumber(a, b) ==
    Mantissa(a) * Pow10(FractionDigits(b)) = Mantissa(b) * Pow10(FractionDigits(a))

IsNumericLiteral(d) ==
    /\ d # <<>>
    /\ \A i \in 1..Len(d) : d[i] \in AsciiDigits \cup {"."}
    /\ d[1] \in AsciiDigits
    /\ CountDots(d) <= 1

\* C7: on a numeric literal d (ASCII digits with at most one decimal point,
\* starting with a digit) tokenise never fails, reads the whole of d in one
\* iteration, and returns exactly Number(d), EOF.
C7_NumericLiteral ==
    IsNumericLiteral(input) =>
        /\ lexStatus # "err"
        /\ lexStatus = "running" =>
            \/ tokens = <<>> /\ position = 0
            \/ Len(tokens) = 1 /\ position = Len(input)
        /\ lexStatus = "ok" =>
            /\ Len(tokens) = 2
            /\ tokens[1].type = "Number"
            /\ SameNumber(tokens[1].value, input)
            /\ tokens[2] = EOF

C7_Witness == input = <<"1", "0", ".", "5">> /\ lexStatus = "ok"

\* ------------------------------------------------------------------------
\* Parser properties
\* ------------------------------------------------------------------------
\* The four levels of the expression grammar, lowest-binding first.
LevelOf(tok) ==
    CASE tok.type \in {"Equal", "NotEqual"} -> 1
      [] tok.type \in {"LessThan", "LessThanEq", "GreaterThan", "GreaterThanEq"} -> 2
      [] tok.type \in {"Plus", "Minus"} -> 3
      [] tok.type \in {"Multiply", "Divide"} -> 4

\* The BinaryOp that an operator token denotes.
OperatorOf(tok) ==
    CASE tok.type = "Plus" -> "Add"
      [] tok.type = "Minus" -> "Subtract"
      [] OTHER -> tok.type

PrimaryOf(tok) ==
    IF tok.type = "Number" THEN ExprNumber(tok.value) ELSE ExprIdentifier(tok.value)

\* The token sequence is  a op1 b op2 c EOF.
IsThreeOperandChain ==
    /\ Len(ptokens) = 6
    /\ \A i \in {1, 3, 5} : ptokens[i] \in PrimaryTokens
    /\ \A i \in {2, 4} : ptokens[i] \in OperatorTokens

LeftGrouped ==
    ExprBinary(ExprBinary(PrimaryOf(ptokens[1]), OperatorOf(ptokens[2]),
                          PrimaryOf(ptokens[3])),
               OperatorOf(ptokens[4]), PrimaryOf(ptokens[5]))

RightGrouped ==
    ExprBinary(PrimaryOf(ptokens[1]), OperatorOf(ptokens[2]),
               ExprBinary(PrimaryOf(ptokens[3]), OperatorOf(ptokens[4]),
                          PrimaryOf(ptokens[5])))

\* parse has not failed, and once past the chain it holds exactly the
\* expression statement `tree`.
ParsesTo(tree) ==
    /\ parseStatus # "err"
    /\ ppos > 0 => (ppos = 5 /\ statements = <<StmtExpression(tree)>>)

\* C8: "a hi b lo c" parses to Binary{Binary{a,hi,b}, lo, c} and
\* "a lo b hi c" to Binary{a, lo, Binary{b,hi,c}}, for operators hi and lo
\* of two different levels with equality < relational < additive <
\* multiplicative.
C8_PrecedenceLevels ==
    (IsThreeOperandChain /\ LevelOf(ptokens[2]) # LevelOf(ptokens[4])) =>
        ParsesTo(IF LevelOf(ptokens[2]) > LevelOf(ptokens[4])
                 THEN LeftGrouped ELSE RightGrouped)

C8_Witness ==
    /\ ptokens = <<TokV("Number", <<"1">>), Tok("Plus"), TokV("Number", <<"1">>),
                   Tok("Equal"), TokV("Number", <<"1">>), EOF>>
    /\ parseStatus = "ok"
    /\ statements = <<StmtExpression(LeftGrouped)>>

\* C9: "a op1 b op2 c" with op1 and op2 of one level parses to
\* Binary{Binary{a,op1,b}, op2, c}, each node holding the operator that stood
\* between its operands.
C9_LeftAssociative ==
    (IsThreeOperandChain /\ LevelOf(ptokens[2]) = LevelOf(ptokens[4])) =>
        ParsesTo(LeftGrouped)

C9_Witness ==
    /\ ptokens = <<TokV("Identifier", <<"a">>), Tok("Minus"),
                   TokV("Identifier", <<"a">>), Tok("Plus"),
                   TokV("Number", <<"1">>), EOF>>
    /\ parseStatus = "ok"
    /\ statements[1].expr.operator = "Add"
    /\ statements[1].expr.left.operator = "Subtract"

\* The 1-based indices of the identifiers that primary reads as the name of
\* a call: an identifier followed by '(' that no keyword introduces.
CallSites ==
    {i \in 1..(Len(ptokens) - 1) :
        /\ ptokens[i].type = "Identifier"
        /\ ptokens[i + 1].type = "LParen"
        /\ (i > 1 => ptokens[i - 1].type \notin {"Function", "If", "While"})}

\* The number of '(' less the number of ')' among the tokens i..j.
RECURSIVE ParenDepth(_, _)
ParenDepth(i, j) ==
    IF j < i THEN 0
    ELSE ParenDepth(i, j - 1)
         + (CASE ptokens[j].type = "LParen" -> 1
              [] ptokens[j].type = "RParen" -> -1
              [] OTHER -> 0)

\* The index of the ')' that closes the '(' at index i, 0 when none does.
ClosingParen(i) ==
    LET closers == {j \in (i + 1)..Len(ptokens) : ParenDepth(i, j) = 0}
    IN  IF closers = {} THEN 0
        ELSE CHOOSE j \in closers : \A k \in closers : j <= k

FollowedBySemicolon(i) ==
    /\ ClosingParen(i + 1) # 0
    /\ ptokens[ClosingParen(i + 1) + 1] = Tok("Semicolon")

\* C10: parse returns Ok only when every call's closing ')' is immediately
\* followed by ';' (so a call as an argument or as a left operand, followed
\* by another token, ends in an error and never an AST); and the call
\* itself consumes that ';': once the statement that starts with a call is
\* parsed the cursor is past it.
C10_CallNeedsSemicolon ==
    /\ parseStatus = "ok" => \A i \in CallSites : FollowedBySemicolon(i)
    /\ (1 \in CallSites /\ statements # <<>>) =>
            (FollowedBySemicolon(1) /\ ppos >= ClosingParen(2) + 1)

C10_Witness ==
    /\ ptokens = <<TokV("Identifier", <<"f">>), Tok("LParen"),
                   TokV("Identifier", <<"f">>), Tok("LParen"), Tok("RParen"),
                   Tok("RParen"), EOF>>
    /\ parseStatus = "err"
    /\ parseError = <<"UnexpectedToken", Tok("Semicolon"), Tok("RParen")>>

\* C11: a well-formed fn / let / if / else / with / while / raw statement with
\* one mandatory delimiter ('{', '}', '(', ')' or ';') left out makes parse
\* return UnexpectedToken(expected, found), expected the delimiter left out
\* and found the token standing in its place, EOF included.
C11_MissingDelimiterIsUnexpectedToken ==
    \A s \in DelimitedStatements : \A i \in 1..Len(s) :
        (/\ s[i] \in Delimiters
         /\ ptokens = DropAt(s, i) \o <<EOF>>
         /\ parseStatus # "running")
            => /\ parseStatus = "err"
               /\ parseError = <<"UnexpectedToken", s[i], ptokens[i]>>

\* The declared argument list as the parser builds it.
RECURSIVE ArgumentExprs(_)
ArgumentExprs(ns) ==
    IF ns = <<>> THEN <<>>
    ELSE <<ExprIdentifier(<<Head(ns)>>)>> \o ArgumentExprs(Tail(ns))

\* C12: a declaration `fn f() { }` parses to a Function with arguments = None;
\* one with n >= 1 arguments parses to Some(list) of exactly those n
\* arguments in source order; no Function ever carries Some(empty list).
C12_FunctionArguments ==
    /\ \A names \in SeqsUpTo(ArgumentNames, MaxArgs) :
            (ptokens = FnDecl(names) \o <<EOF>> /\ parseStatus # "running") =>
                /\ parseStatus = "ok"
                /\ Len(statements) = 1
                /\ statements[1].kind = "Function"
                /\ statements[1].arguments =
                        IF names = <<>> THEN <<>> ELSE <<ArgumentExprs(names)>>
    /\ \A i \in 1..Len(statements) :
            statements[i].kind = "Function" => statements[i].arguments # << <<>> >>

C12_Witness ==
    /\ ptokens = FnDecl(<<"a", "b">>) \o <<EOF>>
    /\ parseStatus = "ok"
    /\ statements[1].arguments = <<ArgumentExprs(<<"a", "b">>)>>

\* A declaration without arguments has been parsed.
C12_WitnessNone ==
    /\ ptokens = FnDecl(<<>>) \o <<EOF>>
    /\ parseStatus = "ok"
    /\ statements[1].arguments = <<>>

\* The 1-based index of the first ';' of the parsed tokens, 0 when none.
FirstSemicolon ==
    LET semis == {k \in 1..Len(ptokens) : ptokens[k] = Tok("Semicolon")}
    IN  IF semis = {} THEN 0 ELSE CHOOSE k \in semis : \A j \in semis : k <= j

\* C13: a raw instruction `|> e1 ... en ;` whose expressions are literals,
\* identifiers, binary expressions or calls is parsed as one RawInstruction
\* that ends with the first ';' after the marker: the cursor then stands
\* right after that ';', and when nothing but EOF follows it parse succeeds.
C13_RawStopsAtFirstSemicolon ==
    ptokens \in {s \o <<EOF>> : s \in RawStatements} =>
        /\ Len(statements) = 1 =>
                /\ statements[1].kind = "RawInstruction"
                /\ ppos = FirstSemicolon
        /\ ptokens[FirstSemicolon + 1] = EOF => parseStatus # "err"

\* ------------------------------------------------------------------------
\* Generator properties
\* ------------------------------------------------------------------------
\* compile has run the pass of its loop over the first statement.
FirstCompiled == cpos >= 1 \/ compileStatus \in {"err", "panic"}

\* The texts of the statements of `body`, each compiled on its own, joined
\* in order; "failed" when one of them does not compile.
RECURSIVE BodyText(_)
BodyText(body) ==
    IF body = <<>> THEN "" 
    ELSE Bind(compile_statement(CompilerSelf, Head(body)), LAMBDA first :
         Bind(BodyText(Tail(body)), LAMBDA rest :
         IF first.ok /\ rest # "failed" THEN first.val \o rest ELSE "failed"))

\* C14: under either shell a with-block whose os-tag is the target OS emits
\* exactly the texts of its body statements joined in order, and one whose
\* os-tag is another OS emits the empty text and no error, whatever its body.
C14_WithBlockGatedByOS ==
    (Len(cstatements) = 1 /\ cstatements[1].kind = "With" /\ FirstCompiled) =>
        /\ cstatements[1].os # target_os =>
                /\ compileStatus \notin {"err", "panic"}
                /\ output = ""
        /\ (cstatements[1].os = target_os /\ compileStatus \notin {"err", "panic"}) =>
                output = BodyText(cstatements[1].body)

\* A with-block for the other OS, its body a statement that does not
\* compile, has been compiled to nothing.
C14_Witness ==
    /\ cstatements = <<StmtWith("Windows", <<BareIdentifier>>)>>
    /\ target_os = "Linux"
    /\ compileStatus = "ok"
    /\ output = ""

\* A with-block for the target OS has been compiled to its body's text.
C14_WitnessMatching ==
    /\ cstatements = <<StmtWith("Windows", <<LetOne, EchoCall>>)>>
    /\ target_os = "Windows"
    /\ target_shell = "Batch"
    /\ compileStatus = "ok"
    /\ output = "set x=1\necho hi\n"

\* The source spelling of an arithmetic operator.
ArithmeticSymbol(op) ==
    CASE op = "Add" -> "+"
      [] op = "Subtract" -> "-"
      [] op = "Multiply" -> "*"
      [] op = "Divide" -> "/"

\* An operand as Bash text: $name, the number, the quoted string.
BashOperand(e) ==
    CASE e.kind = "Identifier" -> "$" \o to_string(e.name)
      [] e.kind = "Number" -> to_string(e.value)
      [] e.kind = "String" -> "\"" \o to_string(e.value) \o "\""

\* The program is the single statement `let tag name = l op r;` with op an
\* arithmetic operator, compiled to Bash.
IsBashArithmeticLet ==
    /\ target_shell = "Bash"
    /\ Len(cstatements) = 1
    /\ cstatements[1].kind = "Let"
    /\ cstatements[1].value.kind = "Binary"
    /\ cstatements[1].value.operator \in ArithmeticOps
    /\ FirstCompiled

\* C15: compiled to Bash, `let tag name = l op r;` with op an arithmetic
\* operator emits "name=$((L op R))\n" under the tag "int" and the quoted
\* concatenation "name=\"LR\"\n" under the tag "str", L and R the texts of
\* the operands ($l and $r for identifiers), whatever the kinds of the
\* operands.
C15_BashLetArithmetic ==
    IsBashArithmeticLet =>
        LET let == cstatements[1]
            L == BashOperand(let.value.left)
            R == BashOperand(let.value.right)
        IN  /\ let.variable_type = <<"int">> =>
                    /\ compileStatus \notin {"err", "panic"}
                    /\ output = to_string(let.name) \o "=$((" \o L \o " "
                                 \o ArithmeticSymbol(let.value.operator) \o " " \o R
                                 \o "))\n"
            /\ let.variable_type = <<"str">> =>
                    /\ compileStatus \notin {"err", "panic"}
                    /\ output = to_string(let.name) \o "=\"" \o L \o R \o "\"\n"

C15_Witness ==
    /\ cstatements = <<StmtLet(<<"int">>, <<"x">>, ExprBinary(Name("a"), "Add", Name("b")))>>
    /\ target_shell = "Bash"
    /\ compileStatus = "ok"
    /\ output = "x=$(($a + $b))\n"

\* The same value under the tag "str" has been compiled to a concatenation.
C15_WitnessStr ==
    /\ cstatements = <<StmtLet(<<"str">>, <<"x">>, ExprBinary(Name("a"), "Add", Name("b")))>>
    /\ target_shell = "Bash"
    /\ compileStatus = "ok"
    /\ output = "x=\"$a$b\"\n"

\* The program is the single statement `if tag (x op y) { }` or
\* `while tag (x op y) { }` with op a comparison of two identifiers.
IsComparisonCondition(shell, tag) ==
    /\ target_shell = shell
    /\ Len(cstatements) = 1
    /\ cstatements[1].kind \in {"If", "While"}
    /\ cstatements[1].condition_type = tag
    /\ cstatements[1].condition.kind = "Binary"
    /\ cstatements[1].condition.operator \in ComparisonOps
    /\ cstatements[1].condition.left.kind = "Identifier"
    /\ cstatements[1].condition.right.kind = "Identifier"
    /\ FirstCompiled

\* The text of an if / while statement with an empty body around the text
\* of its condition.
AroundCondition(statement, shell, text) ==
    CASE statement.kind = "If" /\ shell = "Bash" -> "if [[ " \o text \o " ]]; then\nfi\n"
      [] statement.kind = "While" /\ shell = "Bash" ->
            "while [[ " \o text \o " ]]; do\ndone\n"
      [] statement.kind = "If" /\ shell = "Batch" -> "if " \o text \o " (\n)\n"
      [] statement.kind = "While" /\ shell = "Batch" -> ":while " \o text \o " (\n)\n"

BashIntComparison(op) ==
    CASE op = "Equal" -> "-eq"
      [] op = "NotEqual" -> "-ne"
      [] op = "LessThan" -> "-lt"
      [] op = "GreaterThan" -> "-gt"
      [] op = "LessThanEq" -> "-le"
      [] op = "GreaterThanEq" -> "-ge"

\* C16: compiled to Bash under the tag "int", the condition `x op y` of an
\* if / while, x and y identifiers and op a comparison, is emitted as
\* "$x OP $y" with OP one of -eq -ne -lt -gt -le -ge, without $(( )).
C16_BashIntComparison ==
    IsComparisonCondition("Bash", <<"int">>) =>
        LET cond == cstatements[1].condition
        IN  /\ compileStatus \notin {"err", "panic"}
            /\ output = AroundCondition(cstatements[1], "Bash",
                            "$" \o to_string(cond.left.name) \o " "
                                \o BashIntComparison(cond.operator) \o " $"
                                \o to_string(cond.right.name))

C16_Witness ==
    /\ cstatements = <<StmtWhile(<<"int">>, ExprBinary(Name("a"), "LessThanEq", Name("b")),
                                 <<>>)>>
    /\ target_shell = "Bash"
    /\ compileStatus = "ok"
    /\ output = "while [[ $a -le $b ]]; do\ndone\n"

BatchIntComparison(op) ==
    CASE op = "Equal" -> "EQU"
      [] op = "NotEqual" -> "NEQ"
      [] op = "LessThan" -> "LSS"
      [] op = "GreaterThan" -> "GTR"
      [] op = "LessThanEq" -> "LEQ"
      [] op = "GreaterThanEq" -> "GEQ"

\* C17: compiled to Batch under the tag "int", the condition `x op y` of an
\* if / while, x and y identifiers and op a comparison, is emitted as
\* "%%x%% OP %%y%%" with OP one of EQU NEQ LSS GTR LEQ GEQ.
C17_BatchIntComparison ==
    IsComparisonCondition("Batch", <<"int">>) =>
        LET cond == cstatements[1].condition
        IN  /\ compileStatus \notin {"err", "panic"}
            /\ output = AroundCondition(cstatements[1], "Batch",
                            "%%" \o to_string(cond.left.name) \o "%% "
                                 \o BatchIntComparison(cond.operator) \o " %%"
                                 \o to_string(cond.right.name) \o "%%")

\* The source spelling of the comparisons the "str" tag has under Bash.
StrComparisonSymbol(op) ==
    CASE op = "Equal" -> "=="
      [] op = "NotEqual" -> "!="
      [] op = "LessThan" -> "<"
      [] op = "GreaterThan" -> ">"

\* The condition texts that have `symbol` between the operand texts l and
\* r: with or without blanks around the operator, quoted as a whole or not.
OperatorBetween(l, symbol, r) ==
    {open \o l \o gap \o symbol \o gap \o r \o close :
        gap \in {"", " "}, open \in {"", "\""}, close \in {"", "\""}}

\* C18: compiled to Bash under the tag "str", the condition `a op b` of an
\* if / while with op among == != < > is emitted as a text that has the
\* operator between the texts of the left and the right operand.
C18_BashStrComparison ==
    (/\ IsComparisonCondition("Bash", <<"str">>)
     /\ cstatements[1].condition.operator
            \in {"Equal", "NotEqual", "LessThan", "GreaterThan"}) =>
        LET cond == cstatements[1].condition
        IN  /\ compileStatus \notin {"err", "panic"}
            /\ \E text \in OperatorBetween("$" \o to_string(cond.left.name),
                                            StrComparisonSymbol(cond.operator),
                                            "$" \o to_string(cond.right.name)) :
                    output = AroundCondition(cstatements[1], "Bash", text)

\* C19: compile ends with Ok(text) or Err(CompilerError) and never with a
\* panic, for every program and every (OS, shell): what the generator has
\* no rule for (a binary expression or a function declaration or a call
\* outside the standard list under Batch, a binary expression under a tag
\* that is neither "int" nor "str" or outside every typed statement) is a
\* returned CompilerError.
C19_NeverPanics ==
    /\ compileStatus # "panic"
    /\ compileStatus = "err" => compileError[1] = "CompilerError"

\* The statements in the block of an if (its then-branch) or a while.
BlockOf(statement) ==
    IF statement.kind = "If" THEN statement.then_branch ELSE statement.body

\* The program is one if / while whose block is one if / while whose block
\* is the raw instruction `|> a == b;`, both tags among "int" and "str",
\* compiled to Bash.
IsNestedRaw ==
    /\ target_shell = "Bash"
    /\ Len(cstatements) = 1
    /\ cstatements[1].kind \in {"If", "While"}
    /\ cstatements[1].condition_type \in {<<"int">>, <<"str">>}
    /\ Len(BlockOf(cstatements[1])) = 1
    /\ BlockOf(cstatements[1])[1].kind \in {"If", "While"}
    /\ BlockOf(cstatements[1])[1].condition_type \in {<<"int">>, <<"str">>}
    /\ BlockOf(BlockOf(cstatements[1])[1]) = <<RawCompare>>
    /\ FirstCompiled

BashBlockOpen(statement) ==
    IF statement.kind = "If" THEN "if [[ $c ]]; then\n" ELSE "while [[ $c ]]; do\n"

BashBlockClose(statement) == IF statement.kind = "If" THEN "fi\n" ELSE "done\n"

\* The line of `|> a == b;` under Bash with the operator of the tag.
RawCompareLine(tag) ==
    "$a " \o (IF tag = <<"int">> THEN "-eq" ELSE "==") \o " $b \n"

\* C20: the binary expression of a raw instruction is rendered with the tag
\* of the nearest enclosing Let / If / While: in a typed block nested in a
\* typed block, with the operator of the inner block's tag.
C20_RawUsesNearestTag ==
    IsNestedRaw =>
        LET outer == cstatements[1]
            inner == BlockOf(outer)[1]
        IN  /\ compileStatus \notin {"err", "panic"}
            /\ output = BashBlockOpen(outer) \o BashBlockOpen(inner)
                            \o RawCompareLine(inner.condition_type)
                            \o BashBlockClose(inner) \o BashBlockClose(outer)

\* The program is the single bare call statement `name(...);`, compiled.
IsBareCall(names) ==
    /\ Len(cstatements) = 1
    /\ cstatements[1].kind = "Expression"
    /\ cstatements[1].expr.kind = "Call"
    /\ to_string(cstatements[1].expr.name) \in names
    /\ FirstCompiled

\* C21: the bare call exit(n, ...) with a numeric first argument compiles
\* to "exit n\n" under Bash and to "exit /b n\n" under Batch; exit with no
\* argument or with a first argument that is not a number ends compile
\* with a CompilerError.
C21_Exit ==
    IsBareCall({"exit"}) =>
        LET args == cstatements[1].expr.args
        IN  IF args # <<>> /\ args[1].kind = "Number"
            THEN /\ compileStatus \notin {"err", "panic"}
                 /\ target_shell = "Bash" =>
                        output = "exit " \o to_string(args[1].value) \o "\n"
                 /\ target_shell = "Batch" =>
                        output = "exit /b " \o to_string(args[1].value) \o "\n"
            ELSE /\ compileStatus = "err"
                 /\ compileError[1] = "CompilerError"

\* exit(0) has been compiled to Batch.
C21_Witness ==
    /\ cstatements = <<StmtExpression(ExprCall(<<"exit">>, <<ExprNumber(<<"0">>)>>))>>
    /\ target_shell = "Batch"
    /\ compileStatus = "ok"
    /\ output = "exit /b 0\n"

\* exit("s") has ended compile with the CompilerError of its first argument.
C21_WitnessNotNumber ==
    /\ cstatements = <<StmtExpression(ExprCall(<<"exit">>, <<ExprString(<<"s">>)>>))>>
    /\ compileStatus = "err"
    /\ compileError = <<"CompilerError", "First argument of exit must be a number">>

\* `arg` is a call of path.
IsPathCall(arg) == arg.kind = "Call" /\ to_string(arg.name) = "path"

\* Exactly two arguments, each a call of path.
TwoPathCalls(args) == Len(args) = 2 /\ \A i \in 1..Len(args) : IsPathCall(args[i])

\* C22: under either shell the bare call of copy, cp, move or mv compiles
\* only when it has exactly two arguments and each is a call of path; with
\* another number of arguments, or an argument that is not a call of path,
\* compile ends with a CompilerError and returns no text.
C22_CopyMoveArguments ==
    IsBareCall(CopyNames) =>
        LET args == cstatements[1].expr.args
        IN  /\ compileStatus \notin {"err", "panic"} => TwoPathCalls(args)
            /\ ~TwoPathCalls(args) =>
                    /\ compileStatus = "err"
                    /\ compileError[1] = "CompilerError"
                    /\ output = ""

\* mv(path("a"), "s") has ended compile with a CompilerError under Batch.
C22_Witness ==
    /\ cstatements = <<StmtExpression(ExprCall(<<"mv">>, <<PathA, ExprString(<<"s">>)>>))>>
    /\ target_shell = "Batch"
    /\ compileStatus = "err"
    /\ compileError[2] = "move/mv requires path() as argument"
    /\ output = ""

\* copy(path("a"), path(b, "c")) has been compiled.
C22_WitnessCompiled ==
    /\ cstatements = <<StmtExpression(ExprCall(<<"copy">>, <<PathA, PathB>>))>>
    /\ target_shell = "Batch"
    /\ target_os = "Windows"
    /\ compileStatus = "ok"
    /\ output = "copy \"\\a\" \"\\$b\\c\" \n"

\* cp with three arguments has ended compile with a CompilerError.
C22_WitnessCount ==
    /\ cstatements = <<StmtExpression(ExprCall(<<"cp">>, <<PathA, PathB, PathA>>))>>
    /\ compileStatus = "err"
    /\ compileError = <<"CompilerError", "copy/cp requires exactly two arguments">>

\* The texts an argument of a literal invocation may be: the quoted
\* reference to an identifier in the notation of either shell, the quoted
\* string, the bare number.
LiteralArgumentTexts(arg) ==
    CASE arg.kind = "Identifier" ->
            {"\"$" \o to_string(arg.name) \o "\"",
             "\"%%" \o to_string(arg.name) \o "%%\""}
      [] arg.kind = "String" -> {"\"" \o to_string(arg.value) \o "\""}
      [] arg.kind = "Number" -> {to_string(arg.value)}
      [] OTHER -> {}

\* The texts of `args` in order, a blank before each.
RECURSIVE LiteralArgumentLists(_)
LiteralArgumentLists(args) ==
    IF args = <<>> THEN {""}
    ELSE {" " \o first \o rest :
            first \in LiteralArgumentTexts(Head(args)),
            rest \in LiteralArgumentLists(Tail(args))}

\* The lines of the literal invocation of `name` with `args`, with or
\* without a blank before the newline.
LiteralInvocations(name, args) ==
    {to_string(name) \o list \o gap \o "\n" :
        list \in LiteralArgumentLists(args), gap \in {"", " "}}

\* C23: under either shell the bare call of a name outside the standard
\* list compiles to the name and its arguments in order, blanks between
\* them and a newline at the end, each argument the quoted reference to an
\* identifier, a quoted string or a bare number; with an argument of
\* another kind (binary expression, call) compile ends with a
\* CompilerError.
C23_LiteralInvocation ==
    (/\ Len(cstatements) = 1
     /\ cstatements[1].kind = "Expression"
     /\ cstatements[1].expr.kind = "Call"
     /\ to_string(cstatements[1].expr.name) \notin allowed_std_functions
     /\ FirstCompiled) =>
        LET call == cstatements[1].expr
        IN  IF \A i \in 1..Len(call.args) :
                    call.args[i].kind \in {"Identifier", "String", "Number"}
            THEN /\ compileStatus \notin {"err", "panic"}
                 /\ output \in LiteralInvocations(call.name, call.args)
            ELSE /\ compileStatus = "err"
                 /\ compileError[1] = "CompilerError"

\* `part` occurs in `text`.
Contains(text, part) ==
    \E i \in 1..(Len(text) - Len(part) + 1) : SubSeq(text, i, i + Len(part) - 1) = part

\* The identifiers of the expressions directly in `statement`: the value of
\* a let, the condition of an if / while, the arguments of a bare call of
\* print, echo, path, cd, make_dir, remove_dir, remove or exists.
IdentifierOperands(statement) ==
    CASE statement.kind = "Let" /\ statement.value.kind = "Identifier" ->
            {to_string(statement.value.name)}
      [] statement.kind \in {"If", "While"} /\ statement.condition.kind = "Identifier" ->
            {to_string(statement.condition.name)}
      [] /\ statement.kind = "Expression"
         /\ statement.expr.kind = "Call"
         /\ to_string(statement.expr.name) \in IdentifierFunctions \cup {"path"} ->
            {to_string(statement.expr.args[i].name) :
                i \in {j \in 1..Len(statement.expr.args) :
                            statement.expr.args[j].kind = "Identifier"}}
      [] OTHER -> {}

\* C24: in the text compiled for a let value, a condition, or a call of
\* print / echo / path / cd / make_dir / remove_dir / remove / exists, each
\* identifier operand appears as %%name%% and never as $name under Batch,
\* and as $name and never as %%name%% under Bash.
C24_IdentifierNotation ==
    (Len(cstatements) = 1 /\ compileStatus = "ok") =>
        \A n \in IdentifierOperands(cstatements[1]) :
            IF target_shell = "Batch"
            THEN Contains(output, "%%" \o n \o "%%") /\ ~Contains(output, "$" \o n)
            ELSE Contains(output, "$" \o n) /\ ~Contains(output, "%%" \o n \o "%%")

\* The texts an argument of path may be: the identifier reference in the
\* notation of either shell, the string, the number.
PathArgumentTexts(arg) ==
    CASE arg.kind = "Identifier" ->
            {"$" \o to_string(arg.name), "%%" \o to_string(arg.name) \o "%%"}
      [] arg.kind = "String" -> {to_string(arg.value)}
      [] arg.kind = "Number" -> {to_string(arg.value)}

\* The texts of `args` in order with `separator` between each two.
RECURSIVE JoinedWith(_, _)
JoinedWith(args, separator) ==
    IF Len(args) = 1 THEN PathArgumentTexts(args[1])
    ELSE {first \o separator \o rest :
            first \in PathArgumentTexts(Head(args)),
            rest \in JoinedWith(Tail(args), separator)}

\* C25: the bare call path(a1, ..., an), n >= 1, compiles to the texts of
\* its arguments in order with exactly n - 1 separators, one between each
\* two consecutive arguments (quoted or not); the separator is the
\* backslash when the target OS is Windows and the forward slash otherwise,
\* whatever the shell; path() ends compile with a CompilerError.
C25_PathJoin ==
    (/\ IsBareCall({"path"})
     /\ \A i \in 1..Len(cstatements[1].expr.args) :
            cstatements[1].expr.args[i].kind \in {"Identifier", "String", "Number"}) =>
        LET args == cstatements[1].expr.args
            separator == IF target_os = "Windows" THEN "\\" ELSE "/"
        IN  IF args = <<>>
            THEN compileStatus = "err" /\ compileError[1] = "CompilerError"
            ELSE /\ compileStatus \notin {"err", "panic"}
                 /\ \E joined \in JoinedWith(args, separator) :
                    \E open \in {"", "\""}, close \in {"", "\"", "\" "} :
                        output = open \o joined \o close

\* What compile_statement gives for the i-th top-level statement when the
\* loop of compile is at it.
StatementResult(i) ==
    compile_statement([CompilerSelf EXCEPT !.position = i - 1], cstatements[i])

\* The texts of the top-level statements from the i-th to the k-th, in
\* source order.
RECURSIVE TextsFrom(_, _)
TextsFrom(i, k) ==
    IF i > k THEN "" ELSE StatementResult(i).val \o TextsFrom(i + 1, k)

\* The top-level statements whose compilation does not give a text.
NotCompiling == {i \in 1..Len(cstatements) : ~StatementResult(i).ok}

C26_WitnessFirstError ==
    /\ cstatements = <<StmtExpression(ExprCall(<<"exit">>, <<>>)), BareIdentifier>>
    /\ cpos = 0
    /\ compileStatus = "err"
    /\ compileError = <<"CompilerError", "exit requires an exit code argument">>

\* Two statements have been compiled to their texts in source order.
C26_WitnessOk ==
    /\ cstatements = <<LetOne, EchoCall>>
    /\ target_shell = "Bash"
    /\ compileStatus = "ok"
    /\ output = "x=1\necho \"hi\"\n"

\* C30: the statement cursor of the Compiler is never reset. Once compile
\* has returned Ok the cursor is at statements.len(), and every further
\* call of compile on that Compiler returns Ok of the empty text; once
\* compile has returned Err at the top-level statement k the cursor stays
\* at k, and a further call returns the same error again and emits none
\* of the statements before k.
C30_CursorNeverReset ==
    /\ compileStatus = "ok" => cpos = Len(cstatements)
    /\ compileStatus = "err" => ~StatementResult(cpos + 1).ok
    /\ previous # NoCall =>
            /\ cpos >= previous.position
            /\ output = ""
            /\ previous.status = "ok" =>
                    /\ previous.position = Len(cstatements)
                    /\ cpos = Len(cstatements)
                    /\ compileStatus \in {"running", "ok"}
            /\ previous.status = "err" =>
                    /\ cpos = previous.position
                    /\ compileStatus \in {"running", "err"}
                    /\ compileStatus = "err" => compileError = previous.error

\* A second call has returned Ok of the empty text after the first had
\* returned the script of two statements.
C30_Witness ==
    /\ cstatements = <<LetOne, EchoCall>>
    /\ previous # NoCall
    /\ previous.status = "ok"
    /\ previous.output = "x=1\necho \"hi\"\n"
    /\ compileStatus = "ok"
    /\ output = ""
    /\ cpos = 2

\* A second call has returned the error of the second statement again.
C30_WitnessError ==
    /\ cstatements = <<EchoCall, BareIdentifier>>
    /\ previous # NoCall
    /\ previous.status = "err"
    /\ previous.position = 1
    /\ compileStatus = "err"
    /\ compileError = <<"CompilerError", "Expression is not a function call">>
    /\ cpos = 1

\* ------------------------------------------------------------------------
\* Termination and cursor properties
\* ------------------------------------------------------------------------
\* C27: every iteration of tokenise's loop either returns or advances the
\* position by at least one character, also when the current character
\* is an identifier start (alphabetic or '_') that is no identifier
\* continuation (ASCII alphanumeric or '_'), such as a non-ASCII letter;
\* so tokenise terminates on every finite input.
C27_EveryIterationAdvances ==
    (iterStart # NoIter /\ lexStatus = "running") => position > iterStart

\* x after the operator character c makes a two-character operator of it
\* (==, <=, >=) or opens a comment (/*).
ExtendsOperator(c, x) == (c \in {"=", "<", ">"} /\ x = "=") \/ (c = "/" /\ x = "*")

\* The input is "a" c x, c an operator character and x a character that is
\* no whitespace and does not extend c, and tokenise has returned.
IsOperatorThenCharacter ==
    /\ Len(input) = 3
    /\ input[1] = "a"
    /\ input[2] \in OperatorChars
    /\ ~IsAsciiWhitespace(input[3])
    /\ ~ExtendsOperator(input[2], input[3])
    /\ lexStatus \in {"ok", "err"}

\* C28: the tokenizer drops no character that follows an operator: for an
\* operator character c among = < > + - * / and a character x that is no
\* whitespace and does not extend c, tokenise of "a" c x returns what
\* tokenise of "a " c " " x returns.
C28_OperatorSpacing ==
    IsOperatorThenCharacter =>
        LET spaced == tokenise(<<"a", " ", input[2], " ", input[3]>>)
        IN  /\ lexStatus = spaced.status
            /\ tokens = spaced.tokens

\* The number of tokens `tok` in the parser's input.
TokenCount(tok) == Cardinality({i \in 1..Len(ptokens) : ptokens[i] = tok})

\* The input ends inside a block: more '{' than '}'.
BlockLeftOpen == TokenCount(Tok("LBrace")) > TokenCount(Tok("RBrace"))

\* C29: parse terminates on every finite token sequence, and its cursor
\* is forward-only and bounded: the position never exceeds tokens.len()
\* and never decreases, each statement parse_stmt returns has consumed at
\* least one token, an input that ends inside a block ends parse with a
\* returned error, and parse returns in the end.
C29_ParseTerminates ==
    /\ [](ppos <= Len(ptokens))
    /\ [][ppos' >= ppos]_vars
    /\ [][Len(statements') > Len(statements) => ppos' > ppos]_vars
    /\ []((BlockLeftOpen /\ parseStatus # "running") => parseStatus = "err")
    /\ <>(parseStatus # "running")

\* A while block with an unclosed with block in it, cut off by the end of
\* input, has ended parse with an error at the EOF token.
C29_Witness ==
    /\ ptokens = <<Tok("While"), Id("int"), Tok("LParen"), Id("a"), Tok("RParen"),
                   Tok("LBrace"), Tok("With"), Id("linux"), Tok("LBrace"), EOF>>
    /\ parseStatus = "err"
    /\ ppos = 9

\* The cursor has reached tokens.len() on an input without EOF token and
\* parse has returned its statement.
C29_WitnessNoEOF ==
    /\ ptokens = <<Tok("With"), Id("linux"), Tok("LBrace"), Tok("RBrace")>>
    /\ ppos = Len(ptokens)
    /\ parseStatus = "ok"
    /\ Len(statements) = 1

====
